---- MODULE Spec2Model ----
(***************************************************************************)
(* A model of node-manager-core: the client failover proxy                 *)
(* (node/services/function-runners.go over the ExecutionClientManager of   *)
(* node/services/ec-manager.go) and the transaction layer (the             *)
(* TransactionManager of the eth package).                                 *)
(***************************************************************************)
EXTENDS Integers, Sequences, FiniteSets, TLC

(***************************************************************************)
(* Bounds of the model.                                                    *)
(***************************************************************************)
\* goroutines that call through the proxy
NumCallers == 2
\* longest chain of wrapped errors the wrapped function returns
MaxErrChain == 2
\* invocations of the wrapped function one proxy call is followed through
MaxInvocations == 3

\* longest bundle given to BatchExecuteTransactions
MaxBatch == 3
\* largest nonce a bundle starts from, and the highest the chain's nonce climbs
MaxNonce == 2
\* longest list given to WaitForTransactions and WaitForTransactionsByHash
NumWaits == 2
\* largest count given to a query, and the largest batchSize
MaxCount == 3
MaxBatchSize == 2
\* largest concurrentCallLimit of a QueryManager
MaxCallLimit == 2

\* the windows of a batch query the model follows
MaxWindows == 4

\* requests for committees in progress at once
NumRequests == 2

\* longest list of validator indices asked for, longest duty list of an epoch
MaxIndices == 2
MaxDuties == 3

\* most processors of a machine, most requests of one getValidatorsByOpts
MaxCPU == 4
MaxFetches == 3

Callers == 1..NumCallers

(***************************************************************************)
(* Errors.  A Go error is modelled by its Unwrap chain, outermost first:   *)
(* each element is the dynamic type of one error of the chain.             *)
(* syscall.Errno is a number and wraps nothing, so it only ends a chain.   *)
(***************************************************************************)
ErrorTypes == {"Errno", "NetError", "Other"}

RECURSIVE ChainsOfLen(_)
ChainsOfLen(n) ==
    IF n = 1 THEN {<<t>> : t \in ErrorTypes}
    ELSE {<<t>> \o e : t \in ErrorTypes \ {"Errno"}, e \in ChainsOfLen(n - 1)}

Errors == UNION {ChainsOfLen(n) : n \in 1..MaxErrChain}

\* the nil error
NilErr == <<>>

\* what one invocation of the wrapped function returns as its error
Outcomes == {NilErr} \cup Errors

\* errors.As(err, &target): some error of the chain has the target type
ErrorsAs(err, type) == \E i \in 1..Len(err) : err[i] = type

isDisconnectedAnyError(err) == err # NilErr

\* Returns true if the error was a connection failure
isDisconnected(err) ==
    IF ErrorsAs(err, "Errno") THEN TRUE ELSE ErrorsAs(err, "NetError")

(***************************************************************************)
(* State.                                                                  *)
(***************************************************************************)
VARIABLES
    fallbackEc,     \* "nil" when no fallback client is configured, else "client"
    primaryReady,   \* ExecutionClientManager.primaryReady
    fallbackReady,  \* ExecutionClientManager.fallbackReady
    concurrent,     \* TRUE when callers and the health check run on several goroutines
    pc,             \* pc[c]: where caller c is inside runFunction1
    hasLogger,      \* hasLogger[c]: the call's context carries a *log.Logger
    entered,        \* the readiness flags the latest entry into the proxy found
    calls,          \* calls[c]: the clients the wrapped function was invoked on, in order
    lastErr,        \* lastErr[c]: the error the latest invocation returned
    result,         \* result[c]: what the proxy call returned
    bpc,            \* where BatchExecuteTransactions is
    txSubmissions,  \* its txSubmissions argument
    opts,           \* the caller's *bind.TransactOpts, shared with the callee
    bi,             \* the loop index i, counted from 1
    txs,            \* the transactions created so far
    batchReturn,    \* what BatchExecuteTransactions returned
    chainNonce,     \* the sender's nonce on chain, as NonceAt answers it now
    nonceAnswers,   \* what NonceAt answered to the bundle in progress, call by call
    entryNonce,     \* opts.Nonce as the caller passed it to the bundle in progress
    execArgs,       \* the operation in progress, and its txInfo and opts as passed in
    buffer,         \* TransactionManager.buffer
    multiplier,     \* TransactionManager.multiplier, the fraction <<numerator, denominator>>
    safeGas,        \* the latest direct call of GetSafeGasLimit: its argument and its results
    simpc,          \* where SimulateTransaction is
    simEstimate,    \* what client.EstimateGas returned to the simulation in progress
    simResult,      \* the SimulationResult returned
    waitOp,         \* the waiting operation in progress and the length of its list
    wpc,            \* wpc[w]: where the wait for the w-th transaction is
    lookups,        \* lookups[w]: the lookups its getTransactionFromHash has made
    receipt,        \* receipt[w]: the status of the receipt obtained, or "none"
    werr,           \* werr[w]: what the wait returned
    groupErr,       \* the errgroup's error: the wait that failed first, or 0
    waitReturn,     \* what the waiting operation returned
    cancelled,      \* the context of the operation's caller is cancelled
    concurrentCallLimit, \* QueryManager.concurrentCallLimit
    queryOp,        \* the query in progress: its arguments, and the calls that fail
    qpc,            \* where BatchQuery or FlexBatchQuery is
    qi,             \* the loop variable i of its dispatching loop
    windows,        \* the windows dispatched so far, one goroutine each
    queryErr,       \* the errgroup's error: the first error a window returned
    queryReturn,    \* what the query returned
    built,          \* the latest call of NewTransactionManager: its arguments and its results
    runArgs,        \* the call in progress of runFunction0, of runFunction2 or of a method
                    \* built on them, and what the endpoints answer to it
    function,       \* the function it hands to runFunction1: its results on each client
    returned,       \* what the call returned
    managerStatus,  \* the ClientManagerStatus the latest CheckStatus returned
    pool,           \* committeesDecoderPool: the decoders at rest
    decoders,       \* decoders[d]: the reader, the kept error and the unread bytes of decoder d
    requests,       \* requests[r]: where getCommittees request r is, its body and its decoder
    duties,         \* the latest GetValidatorProposerDuties: its indices, the response, its result
    fetch           \* the getValidatorsByOpts in progress: its list, its errgroup, its loop

proxyVars == <<pc, hasLogger, entered, calls, lastErr, result>>

managerVars == <<fallbackEc, primaryReady, fallbackReady, concurrent>>

batchVars == <<bpc, txSubmissions, opts, bi, txs, batchReturn, chainNonce,
               nonceAnswers, entryNonce, execArgs>>

simVars == <<buffer, multiplier, safeGas, simpc, simEstimate, simResult>>

waitVars == <<waitOp, wpc, lookups, receipt, werr, groupErr, waitReturn, cancelled>>

queryVars == <<concurrentCallLimit, queryOp, qpc, qi, windows, queryErr, queryReturn>>

\* the calls of NewTransactionManager, of runFunction0 and of runFunction2
callVars == <<built, runArgs, function, returned>>

\* the status report of CheckStatus and the state of the Beacon HTTP client
beaconVars == <<managerStatus, pool, decoders, requests, duties, fetch>>

\* the state of the TransactionManager's other operations and of the QueryManager
restVars == <<simVars, waitVars, queryVars, callVars, beaconVars>>

vars == <<managerVars, proxyVars, batchVars, restVars>>

IsFallbackEnabled == fallbackEc # "nil"

\* results of a proxy call
NoResult == [kind |-> "none", from |-> "", err |-> NilErr]
ValueOf(client) == [kind |-> "value", from |-> client, err |-> NilErr]
ErrorOfWrapped(err) == [kind |-> "error", from |-> "", err |-> <<"Other">> \o err]
\* return blank, err
ErrorOf(err) == [kind |-> "error", from |-> "", err |-> err]
AllFailed == [kind |-> "allFailed", from |-> "", err |-> NilErr]
NoneReady == [kind |-> "noneReady", from |-> "", err |-> NilErr]
Panic == [kind |-> "panic", from |-> "", err |-> NilErr]

EnteredWith(primary, fallback) == [primaryReady |-> primary, fallbackReady |-> fallback]

\* On one goroutine an operation runs to its end before the next one starts;
\* on goroutines of their own, operations interleave at every access of a flag.
OthersIdle(c) == \A d \in Callers \ {c} : pc[d] = "idle"

CanRun(c) == concurrent \/ OthersIdle(c)

CanRunChecker == concurrent \/ (\A d \in Callers : pc[d] = "idle")

CanRunSetter == concurrent \/ (\A d \in Callers : pc[d] = "idle")

NewExecutionClientManager(fallbackEcUrl) ==
    /\ fallbackEc = (IF fallbackEcUrl # "" THEN "client" ELSE "nil")
    /\ primaryReady = TRUE
    /\ fallbackReady = (fallbackEc # "nil")

InitProxy ==
    /\ \E fallbackEcUrl \in {"", "http://fallback"} :
           NewExecutionClientManager(fallbackEcUrl)
    /\ pc = [c \in Callers |-> "idle"]
    /\ hasLogger = [c \in Callers |-> FALSE]
    /\ entered = EnteredWith(TRUE, fallbackReady)
    /\ calls = [c \in Callers |-> <<>>]
    /\ lastErr = [c \in Callers |-> NilErr]
    /\ result = [c \in Callers |-> NoResult]

\* the nil *big.Int of opts.Nonce; a set nonce n is <<n>>
NilNonce == <<>>

NoReturn == [err |-> "none", txs |-> <<>>]

\* an element of txs not yet assigned
NilTx == [from |-> "", nonce |-> -1, gasLimit |-> 0, gasFeeCap |-> 0, sent |-> FALSE,
          to |-> "", data |-> "", value |-> 0]

\* the entry of nonceAnswers for a NonceAt call that returned an error
NonceAtFailed == -1

\* a bind.TransactOpts with every field zero
ZeroOpts == [Nonce |-> NilNonce, GasLimit |-> 0, GasFeeCap |-> 0, From |-> "",
             NoSend |-> FALSE, Value |-> 0]

\* a nil *TransactionInfo
NoTxInfo == [Value |-> 0, To |-> "", Data |-> ""]

NoArgs == [op |-> "none", txInfo |-> NoTxInfo, opts |-> ZeroOpts]

\* no bundle in progress
BatchIdle ==
    /\ bpc = "idle"
    /\ txSubmissions = <<>>
    /\ opts = ZeroOpts
    /\ bi = 0
    /\ txs = <<>>
    /\ batchReturn = NoReturn
    /\ nonceAnswers = <<>>
    /\ entryNonce = NilNonce
    /\ execArgs = NoArgs

(***************************************************************************)
(* The TransactionManager's gas arithmetic.  The multiplier is a float64   *)
(* in the code; the model takes multipliers that are fractions with a      *)
(* power of two as denominator, which a float64 holds exactly, as it holds *)
(* their product with every estimate up to the block gas limit.            *)
(* A uint64 of the code is a word of the model: the arithmetic is the      *)
(* same, modulo MaxUint + 1, with the word scaled from 64 to 30 bits.      *)
(***************************************************************************)
\* The block gas limit (gwei)
GasLimit == 30000000

\* Default value for the safe gas limit buffer, in gwei
DefaultSafeGasBuffer == 0

\* Default value for the safe gas limit multiplier: 1.5
DefaultSafeGasMultiplier == <<3, 2>>

\* the largest value of an unsigned word
MaxUint == 1073741823

\* the safeGasBuffer values a TransactionManager is built with
Buffers == {0, 1, 15000000, MaxUint - 1, MaxUint}

\* the safeGasMultiplier values a TransactionManager is built with
Multipliers == {<<0, 1>>, <<1, 2>>, <<-1, 1>>, <<1, 1>>, <<3, 2>>, <<2, 1>>}

\* the gas estimates of the model: what EstimateGas answers, what callers pass
Estimates == {0, 1, 3, 20000000, GasLimit, GasLimit + 1}

\* A float64 of the code is a fraction <<numerator, denominator>> with a
\* positive denominator, or NaN; every comparison with NaN but != is false
NaN == <<0, 0>>

IsNaN(m) == m[2] = 0

\* safeGasMultiplier != 0
FloatNotZero(m) == IsNaN(m) \/ m[1] # 0

\* safeGasMultiplier < 1
FloatLessThanOne(m) == ~IsNaN(m) /\ m[1] < m[2]

\* the float64 values NewTransactionManager is called with
MultiplierInputs == Multipliers \cup {NaN}

\* NewTransactionManager: the manager, or an error
NewTransactionManager(safeGasBuffer, safeGasMultiplier) ==
    IF FloatNotZero(safeGasMultiplier) /\ FloatLessThanOne(safeGasMultiplier)
    THEN [err |-> "multiplier cannot be less than 1", buffer |-> 0, multiplier |-> <<0, 1>>]
    ELSE [err |-> "", buffer |-> safeGasBuffer, multiplier |-> safeGasMultiplier]

\* the TransactionManagers that can be built with a multiplier that is a number
TransactionManagers ==
    {tm \in {NewTransactionManager(b, m) : b \in Buffers, m \in Multipliers} :
        tm.err = ""}

\* math.Ceil(float64(estimate) * multiplier), for a multiplier that is not negative
CeilMul(estimate, m) == (estimate * m[1] + m[2] - 1) \div m[2]

\* the results of GetSafeGasLimit
SafeGasError(text) == [err |-> text, limit |-> 0]

SafeGasOk(safeLimit) == [err |-> "", limit |-> safeLimit]

\* a + b on unsigned words
UintAdd(a, b) == (a + b) % (MaxUint + 1)

\* Calculates a gas limit for a gas estimate: estimate * multiplier + buffer
GetSafeGasLimit(estimate) ==
    IF estimate > GasLimit
    THEN SafeGasError("estimated gas usage is greater than the block gas limit")
    ELSE LET safeLimit == UintAdd(CeilMul(estimate, multiplier), buffer) IN
         IF safeLimit > GasLimit
         THEN SafeGasError("safe gas limit is greater than the block gas limit")
         ELSE SafeGasOk(safeLimit)

NoSafeGas == [err |-> "", limit |-> 0, called |-> FALSE, estimate |-> 0]

\* the SimulationResult of a request without opts
NotSimulated ==
    [IsSimulated |-> FALSE, EstimatedGasLimit |-> 0, SafeGasLimit |-> 0,
     SimulationError |-> ""]

NoEstimate == [err |-> "none", gasLimit |-> 0]

\* no simulation in progress
SimIdle ==
    /\ safeGas = NoSafeGas
    /\ simpc = "idle"
    /\ simEstimate = NoEstimate
    /\ simResult = NotSimulated

\* the TransactionManager the service provider builds
DefaultManager ==
    LET tm == NewTransactionManager(DefaultSafeGasBuffer, DefaultSafeGasMultiplier) IN
    /\ buffer = tm.buffer
    /\ multiplier = tm.multiplier

Waits == 1..NumWaits

NoWait == [op |-> "none", n |-> 0]

\* no waiting operation in progress
WaitIdle ==
    /\ waitOp = NoWait
    /\ wpc = [w \in Waits |-> "idle"]
    /\ lookups = [w \in Waits |-> 0]
    /\ receipt = [w \in Waits |-> "none"]
    /\ werr = [w \in Waits |-> "none"]
    /\ groupErr = 0
    /\ waitReturn = "none"
    /\ cancelled = FALSE

NoQuery == [op |-> "none", count |-> 0, batchSize |-> 0, failing |-> {}, fault |-> FALSE]

NoQueryReturn == [err |-> "", returned |-> FALSE, results |-> <<>>, decoded |-> {}]

\* no query in progress
QueryIdle ==
    /\ queryOp = NoQuery
    /\ qpc = "idle"
    /\ qi = 0
    /\ windows = <<>>
    /\ queryErr = ""
    /\ queryReturn = NoQueryReturn

\* the QueryManager the service provider builds: a limit of at least 1
DefaultQueryManager == concurrentCallLimit = 1

\* the results of the function handed to a runner, before a call and for a
\* client that returns zero values and no error
NoFunction ==
    [primary |-> [err |-> NilErr, arg1 |-> "", arg2 |-> FALSE],
     fallback |-> [err |-> NilErr, arg1 |-> "", arg2 |-> FALSE]]

NoBuilt ==
    [err |-> "", called |-> FALSE, safeGasBuffer |-> 0,
     safeGasMultiplier |-> <<0, 1>>, manager |-> FALSE]

\* what a Beacon node answers to a request: the error of the request, or the
\* HTTP status and the body of the response
NoAnswer == [err |-> NilErr, status |-> 0, body |-> ""]

NoRun == [op |-> "none", primary |-> NoAnswer, fallback |-> NoAnswer]

NoReturned == [arg1 |-> "", arg2 |-> FALSE, done |-> FALSE, result |-> NoResult]

\* no constructor called, no runner in progress
CallIdle ==
    /\ built = NoBuilt
    /\ runArgs = NoRun
    /\ function = NoFunction
    /\ returned = NoReturned

\* types.ClientStatus{}
ZeroClientStatus == [Error |-> FALSE, ChainId |-> 0, IsWorking |-> FALSE, IsSynced |-> FALSE]

\* no CheckStatus has returned yet
NoStatus == [called |-> FALSE, checkChainIDs |-> FALSE, FallbackEnabled |-> FALSE,
             PrimaryClientStatus |-> ZeroClientStatus,
             FallbackClientStatus |-> ZeroClientStatus]

\* the requests for committees that can be in progress at once, and the
\* decoders the pool can have created for them
Requests == 1..NumRequests

Decoders == 1..NumRequests

\* a decoder the pool has not created yet; currentReader 0 is nil
NoDecoder == [err |-> "", created |-> FALSE, currentReader |-> 0, buf |-> <<>>]

\* no request for committees in progress
NoRequest == [err |-> "", status |-> 0, body |-> <<>>, pc |-> "idle", tail |-> "EOF",
              pos |-> 0, decoder |-> 0]

\* no GetValidatorProposerDuties called yet
NoDuties == [err |-> "", data |-> <<>>, called |-> FALSE, indices |-> <<>>,
             proposerMap |-> <<>>]

\* no getValidatorsByOpts in progress
NoFetch == [err |-> "", limit |-> 0, count |-> 0, pc |-> "idle", i |-> 0,
            workers |-> <<>>]

\* no status checked, the Beacon HTTP client at rest with an empty pool
BeaconIdle ==
    /\ managerStatus = NoStatus
    /\ pool = {}
    /\ decoders = [d \in Decoders |-> NoDecoder]
    /\ requests = [r \in Requests |-> NoRequest]
    /\ duties = NoDuties
    /\ fetch = NoFetch

RestIdle == SimIdle /\ WaitIdle /\ QueryIdle /\ DefaultQueryManager /\ CallIdle /\ BeaconIdle

Init == InitProxy /\ concurrent = FALSE /\ BatchIdle /\ chainNonce = 0
        /\ DefaultManager /\ RestIdle

InitConc == InitProxy /\ concurrent = TRUE /\ BatchIdle /\ chainNonce = 0
            /\ DefaultManager /\ RestIdle

InitBatch ==
    /\ InitProxy
    /\ concurrent = FALSE
    /\ BatchIdle
    /\ chainNonce \in 0..MaxNonce
    /\ DefaultManager
    /\ RestIdle

\* a QueryManager with any concurrentCallLimit
InitQuery ==
    /\ InitProxy
    /\ concurrent = FALSE
    /\ BatchIdle
    /\ chainNonce = 0
    /\ DefaultManager
    /\ SimIdle
    /\ WaitIdle
    /\ QueryIdle
    /\ CallIdle
    /\ BeaconIdle
    /\ concurrentCallLimit \in -1..MaxCallLimit

\* a QueryManager whose client is the ExecutionClientManager, as the service
\* provider builds it, its windows on goroutines of their own
InitQueryEc ==
    /\ InitProxy
    /\ concurrent = TRUE
    /\ BatchIdle
    /\ chainNonce = 0
    /\ DefaultManager
    /\ SimIdle
    /\ WaitIdle
    /\ QueryIdle
    /\ CallIdle
    /\ BeaconIdle
    /\ concurrentCallLimit \in 1..MaxCallLimit

\* a TransactionManager with any accepted buffer and multiplier that is a number
InitSim ==
    /\ InitProxy
    /\ concurrent = FALSE
    /\ BatchIdle
    /\ chainNonce = 0
    /\ \E tm \in TransactionManagers :
           buffer = tm.buffer /\ multiplier = tm.multiplier
    /\ RestIdle

(***************************************************************************)
(* runFunction1 (runFunction0 and runFunction2 wrap their function and     *)
(* call it).                                                               *)
(***************************************************************************)
\* A caller enters runFunction1: lines 21-24
runFunction1(c) ==
    /\ pc[c] = "idle"
    /\ CanRun(c)
    /\ pc' = [pc EXCEPT ![c] = "line27"]
    /\ \E l \in BOOLEAN : hasLogger' = [hasLogger EXCEPT ![c] = l]
    /\ entered' = EnteredWith(primaryReady, fallbackReady)
    /\ calls' = [calls EXCEPT ![c] = <<>>]
    /\ lastErr' = [lastErr EXCEPT ![c] = NilErr]
    /\ result' = [result EXCEPT ![c] = NoResult]
    /\ UNCHANGED <<fallbackEc, primaryReady, fallbackReady, concurrent, batchVars, restVars>>

\* the fallback preferred whenever it is ready
CheckPrimaryFallbackFirst(c) ==
    /\ pc[c] = "line27"
    /\ CanRun(c)
    /\ pc' = [pc EXCEPT ![c] = IF primaryReady /\ ~fallbackReady
                               THEN "line29" ELSE "line49"]
    /\ UNCHANGED <<fallbackEc, primaryReady, fallbackReady, concurrent,
                   hasLogger, entered, calls, lastErr, result, batchVars, restVars>>

\* the primary probed on every call, whatever its flag says
CheckPrimaryAlways(c) ==
    /\ pc[c] = "line27"
    /\ CanRun(c)
    /\ pc' = [pc EXCEPT ![c] = IF primaryReady \/ calls[c] = <<>>
                               THEN "line29" ELSE "line49"]
    /\ UNCHANGED <<fallbackEc, primaryReady, fallbackReady, concurrent,
                   hasLogger, entered, calls, lastErr, result, batchVars, restVars>>

\* line 27: if m.IsPrimaryReady()
CheckPrimary(c) ==
    /\ pc[c] = "line27"
    /\ CanRun(c)
    /\ pc' = [pc EXCEPT ![c] = IF primaryReady THEN "line29" ELSE "line49"]
    /\ UNCHANGED <<fallbackEc, primaryReady, fallbackReady, concurrent,
                   hasLogger, entered, calls, lastErr, result, batchVars, restVars>>

\* the end of a call: the return value, or the panic of logger.Warn on a nil logger
Finish(c, res) ==
    /\ pc' = [pc EXCEPT ![c] = IF res = Panic THEN "panicked" ELSE "done"]
    /\ result' = [result EXCEPT ![c] = res]

\* lines 29-46: the wrapped function runs on the primary and returns err
TryPrimary(c) ==
    /\ pc[c] = "line29"
    /\ CanRun(c)
    /\ Len(calls[c]) < MaxInvocations
    /\ \E err \in Outcomes :
        /\ calls' = [calls EXCEPT ![c] = Append(@, "primary")]
        /\ lastErr' = [lastErr EXCEPT ![c] = err]
        /\ IF err # NilErr
           THEN IF isDisconnected(err)
                THEN /\ primaryReady' = FALSE
                     /\ IF ~hasLogger[c]
                        THEN Finish(c, Panic)
                        ELSE IF IsFallbackEnabled
                             THEN /\ pc' = [pc EXCEPT ![c] = "line27"]
                                  /\ UNCHANGED result
                             ELSE Finish(c, AllFailed)
                ELSE /\ Finish(c, ErrorOf(err))
                     /\ UNCHANGED primaryReady
           ELSE /\ Finish(c, ValueOf("primary"))
                /\ UNCHANGED primaryReady
    /\ UNCHANGED <<fallbackEc, fallbackReady, concurrent, hasLogger, entered, batchVars, restVars>>

\* the fallback tried whenever it is configured, whatever its flag says
CheckFallbackEnabled(c) ==
    /\ pc[c] = "line49"
    /\ CanRun(c)
    /\ IF IsFallbackEnabled
       THEN /\ pc' = [pc EXCEPT ![c] = "line51"]
            /\ UNCHANGED result
       ELSE Finish(c, NoneReady)
    /\ UNCHANGED <<fallbackEc, primaryReady, fallbackReady, concurrent,
                   hasLogger, entered, calls, lastErr, batchVars, restVars>>

\* line 49 and line 67: if m.IsFallbackReady(), else "no clients were ready"
CheckFallback(c) ==
    /\ pc[c] = "line49"
    /\ CanRun(c)
    /\ IF fallbackReady
       THEN /\ pc' = [pc EXCEPT ![c] = "line51"]
            /\ UNCHANGED result
       ELSE Finish(c, NoneReady)
    /\ UNCHANGED <<fallbackEc, primaryReady, fallbackReady, concurrent,
                   hasLogger, entered, calls, lastErr, batchVars, restVars>>

\* lines 51-64: the wrapped function runs on the fallback and returns err;
\* on a nil fallback client the method call inside the function panics
TryFallback(c) ==
    /\ pc[c] = "line51"
    /\ CanRun(c)
    /\ Len(calls[c]) < MaxInvocations
    /\ calls' = [calls EXCEPT ![c] = Append(@, "fallback")]
    /\ IF ~IsFallbackEnabled
       THEN /\ Finish(c, Panic)
            /\ UNCHANGED <<lastErr, fallbackReady>>
       ELSE \E err \in Outcomes :
            /\ lastErr' = [lastErr EXCEPT ![c] = err]
            /\ IF err # NilErr
               THEN IF isDisconnected(err)
                    THEN IF ~hasLogger[c]
                         THEN /\ Finish(c, Panic)
                              /\ UNCHANGED fallbackReady
                         ELSE /\ fallbackReady' = FALSE
                              /\ Finish(c, AllFailed)
                    ELSE /\ Finish(c, ErrorOf(err))
                         /\ UNCHANGED fallbackReady
               ELSE /\ Finish(c, ValueOf("fallback"))
                    /\ UNCHANGED fallbackReady
    /\ UNCHANGED <<fallbackEc, primaryReady, concurrent, hasLogger, entered, batchVars, restVars>>

\* the caller takes the result (or recovers the panic) and is free for its next call
Return(c) ==
    /\ pc[c] \in {"done", "panicked"}
    /\ CanRun(c)
    /\ pc' = [pc EXCEPT ![c] = "idle"]
    /\ hasLogger' = [hasLogger EXCEPT ![c] = FALSE]
    /\ UNCHANGED entered
    /\ calls' = [calls EXCEPT ![c] = <<>>]
    /\ lastErr' = [lastErr EXCEPT ![c] = NilErr]
    /\ result' = [result EXCEPT ![c] = NoResult]
    /\ UNCHANGED <<fallbackEc, primaryReady, fallbackReady, concurrent, batchVars, restVars>>

(***************************************************************************)
(* runFunction0 and runFunction2, and the Beacon block query built on      *)
(* runFunction2.  The manager is an ExecutionClientManager or a            *)
(* BeaconClientManager: both hold the same two flags and are built alike.  *)
(***************************************************************************)
\* the proxy caller that stands for the caller of a runner
RunCaller == 1

Clients == {"primary", "fallback"}

\* the functions of signature function0: the error returned on each client
Functions0 == [Clients -> Outcomes]

\* the functions of signature function2: on each client two values, set
\* whether or not an error comes with them, and the error
Functions2 ==
    {[primary |-> [err |-> fn0.primary, arg1 |-> "primary", arg2 |-> TRUE],
      fallback |-> [err |-> fn0.fallback, arg1 |-> "fallback", arg2 |-> TRUE]] :
        fn0 \in Functions0}

StatusOK == 200

StatusNotFound == 404

\* the errors getRequest returns
RequestErrors == UNION {ChainsOfLen(n) : n \in 1..(MaxErrChain - 1)}

\* the answers of a Beacon node to the request for a block
BeaconAnswers ==
    {[err |-> e, status |-> 0, body |-> ""] : e \in RequestErrors}
    \cup {[err |-> NilErr, status |-> st, body |-> ""] : st \in {StatusNotFound, 500}}
    \cup {[err |-> NilErr, status |-> StatusOK, body |-> b] :
            b \in {"block", "undecodable", "bad aggregation bits"}}

\* every status but 200 taken for a failure
getBeaconBlockNotFoundFails(answer) ==
    IF answer.err # NilErr
    THEN [err |-> <<"Other">> \o answer.err, response |-> "", exists |-> FALSE]
    ELSE IF answer.status # StatusOK
    THEN [err |-> <<"Other">>, response |-> "", exists |-> FALSE]
    ELSE IF answer.body = "undecodable"
    THEN [err |-> <<"Other", "Other">>, response |-> "", exists |-> FALSE]
    ELSE [err |-> NilErr, response |-> answer.body, exists |-> TRUE]

\* Get the target beacon block: lines 790-806
getBeaconBlock(answer) ==
    IF answer.err # NilErr
    THEN [err |-> <<"Other">> \o answer.err, response |-> "", exists |-> FALSE]
    ELSE IF answer.status = StatusNotFound
    THEN [err |-> NilErr, response |-> "", exists |-> FALSE]
    ELSE IF answer.status # StatusOK
    THEN [err |-> <<"Other">>, response |-> "", exists |-> FALSE]
    ELSE IF answer.body = "undecodable"
    THEN [err |-> <<"Other", "Other">>, response |-> "", exists |-> FALSE]
    ELSE [err |-> NilErr, response |-> answer.body, exists |-> TRUE]

\* StandardHttpClient.GetBeaconBlock: lines 495-535; arg1 is the block
\* ("" for beacon.BeaconBlock{}), arg2 is exists
GetBeaconBlock(answer) ==
    LET r == getBeaconBlock(answer) IN
    IF r.err # NilErr
    THEN [err |-> r.err, arg1 |-> "", arg2 |-> FALSE]
    ELSE IF ~r.exists
    THEN [err |-> NilErr, arg1 |-> "", arg2 |-> FALSE]
    ELSE IF r.response = "bad aggregation bits"
    THEN [err |-> <<"Other", "Other">>, arg1 |-> "", arg2 |-> FALSE]
    ELSE [err |-> NilErr, arg1 |-> "block", arg2 |-> TRUE]

\* a runner calls runFunction1 with the function fn
StartRun(op, fn, primaryAnswer, fallbackAnswer) ==
    /\ runArgs = NoRun
    /\ \A c \in Callers : pc[c] = "idle"
    /\ runArgs' = [op |-> op, primary |-> primaryAnswer, fallback |-> fallbackAnswer]
    /\ function' = fn
    /\ pc' = [pc EXCEPT ![RunCaller] = "line27"]
    /\ \E l \in BOOLEAN : hasLogger' = [hasLogger EXCEPT ![RunCaller] = l]
    /\ entered' = EnteredWith(primaryReady, fallbackReady)
    /\ calls' = [calls EXCEPT ![RunCaller] = <<>>]
    /\ lastErr' = [lastErr EXCEPT ![RunCaller] = NilErr]
    /\ result' = [result EXCEPT ![RunCaller] = NoResult]
    /\ UNCHANGED <<managerVars, batchVars, simVars, waitVars, queryVars, beaconVars, built,
                   returned>>

\* Run a function with 0 outputs and an error: lines 71-74; the function
\* handed to runFunction1 returns nil and the error of fn0
runFunction0(fn0) ==
    StartRun("runFunction0",
             [primary |-> [err |-> fn0.primary, arg1 |-> "", arg2 |-> FALSE],
              fallback |-> [err |-> fn0.fallback, arg1 |-> "", arg2 |-> FALSE]],
             NoAnswer, NoAnswer)

\* Run a function with 2 outputs and an error: lines 79-90; the function
\* handed to runFunction1 returns out{arg1, arg2} and the error of fn2
runFunction2(fn2) ==
    StartRun("runFunction2",
             [primary |-> [err |-> fn2.primary.err, arg1 |-> fn2.primary.arg1,
                           arg2 |-> fn2.primary.arg2],
              fallback |-> [err |-> fn2.fallback.err, arg1 |-> fn2.fallback.arg1,
                            arg2 |-> fn2.fallback.arg2]],
             NoAnswer, NoAnswer)

\* BeaconClientManager.GetBeaconBlock: runFunction2 of client.GetBeaconBlock
BeaconClientManagerGetBeaconBlock(primaryAnswer, fallbackAnswer) ==
    StartRun("GetBeaconBlock",
             [primary |-> GetBeaconBlock(primaryAnswer),
              fallback |-> GetBeaconBlock(fallbackAnswer)],
             primaryAnswer, fallbackAnswer)

\* line 29: function(m.GetPrimaryClient()) returns what the function returns
FunctionOnPrimary ==
    /\ runArgs # NoRun
    /\ TryPrimary(RunCaller)
    /\ lastErr'[RunCaller] = function.primary.err

\* line 51: function(m.GetFallbackClient())
FunctionOnFallback ==
    /\ runArgs # NoRun
    /\ TryFallback(RunCaller)
    /\ IsFallbackEnabled => lastErr'[RunCaller] = function.fallback.err

\* runFunction2 handing back the first value only
RunnerReturnsFirst ==
    /\ runArgs # NoRun
    /\ ~returned.done
    /\ pc[RunCaller] \in {"done", "panicked"}
    /\ LET r == result[RunCaller]
           out == IF r.kind = "value" THEN function[r.from]
                  ELSE [err |-> NilErr, arg1 |-> "", arg2 |-> FALSE]
       IN returned' = [arg1 |-> IF runArgs.op = "runFunction0" THEN "" ELSE out.arg1,
                       arg2 |-> FALSE,
                       done |-> TRUE,
                       result |-> r]
    /\ UNCHANGED <<managerVars, proxyVars, batchVars, simVars, waitVars, queryVars,
                   beaconVars, built, runArgs, function>>

\* lines 75 and 91: runFunction1 has returned (result, err), blank with an
\* error; runFunction0 returns err, runFunction2 result.arg1, result.arg2, err
RunnerReturns ==
    /\ runArgs # NoRun
    /\ ~returned.done
    /\ pc[RunCaller] \in {"done", "panicked"}
    /\ LET r == result[RunCaller]
           out == IF r.kind = "value" THEN function[r.from]
                  ELSE [err |-> NilErr, arg1 |-> "", arg2 |-> FALSE]
       IN returned' = [arg1 |-> IF runArgs.op = "runFunction0" THEN "" ELSE out.arg1,
                       arg2 |-> IF runArgs.op = "runFunction0" THEN FALSE ELSE out.arg2,
                       done |-> TRUE,
                       result |-> r]
    /\ UNCHANGED <<managerVars, proxyVars, batchVars, simVars, waitVars, queryVars,
                   beaconVars, built, runArgs, function>>

\* the caller takes what the runner returned (or recovers the panic)
RunnerTaken ==
    /\ returned.done
    /\ runArgs' = NoRun
    /\ function' = NoFunction
    /\ returned' = NoReturned
    /\ pc' = [pc EXCEPT ![RunCaller] = "idle"]
    /\ hasLogger' = [hasLogger EXCEPT ![RunCaller] = FALSE]
    /\ calls' = [calls EXCEPT ![RunCaller] = <<>>]
    /\ lastErr' = [lastErr EXCEPT ![RunCaller] = NilErr]
    /\ result' = [result EXCEPT ![RunCaller] = NoResult]
    /\ UNCHANGED <<managerVars, batchVars, simVars, waitVars, queryVars, beaconVars, built,
                   entered>>

(***************************************************************************)
(* The exported readiness setters.                                         *)
(***************************************************************************)
SetPrimaryReady(ready) ==
    /\ CanRunSetter
    /\ primaryReady' = ready
    /\ UNCHANGED <<fallbackEc, fallbackReady, concurrent, proxyVars, batchVars, restVars>>

SetFallbackReady(ready) ==
    /\ CanRunSetter
    /\ fallbackReady' = ready
    /\ UNCHANGED <<fallbackEc, primaryReady, concurrent, proxyVars, batchVars, restVars>>

(***************************************************************************)
(* CheckStatus, the health check.                                          *)
(***************************************************************************)
expectedChainID == 1

\* chain IDs a client reports: 0 stands for a nil answer, 2 for another network
ChainIds == {0, expectedChainID, 2}

\* what the client answers to the requests of checkEcStatus
Probes == [chainIdErr : BOOLEAN, chainId : ChainIds, syncErr : BOOLEAN,
           syncing : BOOLEAN, thresholdErr : BOOLEAN, upToDate : BOOLEAN]

ClientStatus(error, chainId, working, synced) ==
    [Error |-> error, ChainId |-> chainId, IsWorking |-> working, IsSynced |-> synced]

\* Check the client status; Error is TRUE for a non-empty error text
checkEcStatus(probe, checkChainIDs) ==
    LET chainId == IF checkChainIDs THEN probe.chainId ELSE 0 IN
    IF checkChainIDs /\ probe.chainIdErr THEN ClientStatus(TRUE, 0, FALSE, FALSE)
    ELSE IF probe.syncErr THEN ClientStatus(TRUE, chainId, FALSE, FALSE)
    ELSE IF ~probe.syncing
         THEN IF probe.thresholdErr THEN ClientStatus(TRUE, chainId, FALSE, FALSE)
              ELSE IF ~probe.upToDate THEN ClientStatus(TRUE, chainId, TRUE, FALSE)
              ELSE ClientStatus(FALSE, chainId, TRUE, TRUE)
    ELSE ClientStatus(FALSE, chainId, TRUE, FALSE)

\* the statuses checkEcStatus can return, over everything a client can answer
Statuses == [checkChainIDs \in BOOLEAN |->
                {checkEcStatus(probe, checkChainIDs) : probe \in Probes}]

\* the readiness taken from the sync state alone
ReadyFromSynced(status, checkChainIDs) == status.IsWorking /\ status.IsSynced

\* the readiness CheckStatus derives from a status: lines 271-277 and 283-290
ReadyFrom(status, checkChainIDs) ==
    IF checkChainIDs /\ ~status.Error /\ status.ChainId # expectedChainID
    THEN FALSE
    ELSE status.IsWorking /\ status.IsSynced

\* the readiness values a client's answers can lead to
ReadyValues == [checkChainIDs \in BOOLEAN |->
                   {ReadyFrom(status, checkChainIDs) : status \in Statuses[checkChainIDs]}]

\* Get the status of the primary and fallback clients: lines 262-293
CheckStatus(checkChainIDs) ==
    /\ CanRunChecker
    /\ primaryReady' \in ReadyValues[checkChainIDs]
    /\ IF IsFallbackEnabled
       THEN fallbackReady' \in ReadyValues[checkChainIDs]
       ELSE fallbackReady' = FALSE
    /\ UNCHANGED <<fallbackEc, concurrent, proxyVars, batchVars, restVars>>

\* the ClientStatus CheckStatus returns for a client: the one checkEcStatus
\* reported, with the Error text of lines 273 and 285 on another chain ID
CheckedStatus(reported, checkChainIDs) ==
    IF checkChainIDs /\ ~reported.Error /\ reported.ChainId # expectedChainID
    THEN [reported EXCEPT !.Error = TRUE]
    ELSE reported

\* CheckStatus with the statuses checkEcStatus returns for the two clients,
\* and the ClientManagerStatus it returns
CheckStatusReport(checkChainIDs, primaryStatus, fallbackClientStatus) ==
    LET fallbackStatus == IF IsFallbackEnabled THEN fallbackClientStatus
                          ELSE ZeroClientStatus
    IN /\ CanRunChecker
       /\ primaryReady' = ReadyFrom(primaryStatus, checkChainIDs)
       /\ fallbackReady' = (IsFallbackEnabled /\ ReadyFrom(fallbackStatus, checkChainIDs))
       /\ managerStatus' = [called |-> TRUE, checkChainIDs |-> checkChainIDs,
                            FallbackEnabled |-> IsFallbackEnabled,
                            PrimaryClientStatus |->
                                CheckedStatus(primaryStatus, checkChainIDs),
                            FallbackClientStatus |->
                                IF IsFallbackEnabled
                                THEN CheckedStatus(fallbackStatus, checkChainIDs)
                                ELSE ZeroClientStatus]
       /\ UNCHANGED <<fallbackEc, concurrent, proxyVars, batchVars, simVars, waitVars,
                      queryVars, callVars, pool, decoders, requests, duties, fetch>>

(***************************************************************************)
(* The TransactionManager: bundles of transactions.                        *)
(***************************************************************************)
\* the TransactionInfo values of the bundles: target, calldata and value
TxInfos == {[Value |-> 1, To |-> "contractA", Data |-> "callA"],
            [Value |-> 2, To |-> "contractB", Data |-> "callB"]}

Submissions == [GasLimit : {21000, 90000}, TxInfo : TxInfos]

SeqsUpTo(S, n) == UNION {[1..k -> S] : k \in 0..n}

\* what the caller puts into opts.Value; the bundle does not use it
OptsValues == {0, 9}

\* what the caller puts into opts.GasLimit and opts.GasFeeCap
OptsGas == {<<0, 5>>, <<50000, 7>>}

\* the opts a caller builds: the nonce left nil or set, sending left on, and
\* either every other field zero or every other field set
CallerOpts ==
    {o \in {[Nonce |-> n, GasLimit |-> g[1], GasFeeCap |-> g[2], From |-> "node",
             NoSend |-> FALSE, Value |-> v] :
               n \in {NilNonce} \cup {<<k>> : k \in 0..MaxNonce}, g \in OptsGas,
               v \in OptsValues} :
        o.GasLimit = 0 <=> o.Value = 0}

\* the value taken from the caller's opts
ExecuteTransactionRawOptsValue(to, data, value, o) ==
    [from |-> o.From, nonce |-> o.Nonce[1],
     gasLimit |-> o.GasLimit, gasFeeCap |-> o.GasFeeCap, sent |-> ~o.NoSend,
     to |-> to, data |-> data, value |-> o.Value]

\* ExecuteTransactionRaw: the transaction contract.RawTransact builds from newOpts,
\* a copy of opts with Value overwritten by the value argument
ExecuteTransactionRaw(to, data, value, o) ==
    LET newOpts == [Nonce |-> o.Nonce, GasLimit |-> o.GasLimit, GasFeeCap |-> o.GasFeeCap,
                    From |-> o.From, NoSend |-> o.NoSend, Value |-> value] IN
    [from |-> newOpts.From, nonce |-> newOpts.Nonce[1],
     gasLimit |-> newOpts.GasLimit, gasFeeCap |-> newOpts.GasFeeCap, sent |-> ~newOpts.NoSend,
     to |-> to, data |-> data, value |-> newOpts.Value]

NextNonceSame(nonce) == nonce

\* opts.Nonce.Add(opts.Nonce, common.Big1)
NextNonce(nonce) == <<nonce[1] + 1>>

\* a caller enters BatchExecuteTransactions with a bundle and its opts:
\* fresh opts, or the opts of its previous bundle used again
BatchExecuteTransactions ==
    /\ bpc = "idle"
    /\ \E subs \in SeqsUpTo(Submissions, MaxBatch) : txSubmissions' = subs
    /\ \/ \E o \in CallerOpts : opts' = o
       \/ /\ opts.Nonce # NilNonce
          /\ opts.Nonce[1] <= MaxNonce
          /\ opts' = opts
    /\ bpc' = "line230"
    /\ bi' = 0
    /\ txs' = <<>>
    /\ batchReturn' = NoReturn
    /\ nonceAnswers' = <<>>
    /\ entryNonce' = opts'.Nonce
    /\ execArgs' = [op |-> "BatchExecuteTransactions", txInfo |-> NoTxInfo,
                    opts |-> opts']
    /\ UNCHANGED <<managerVars, proxyVars, restVars, chainNonce>>

\* lines 230-239: the latest nonce is fetched when opts.Nonce is nil
BatchGetNonce ==
    /\ bpc = "line230"
    /\ IF opts.Nonce = NilNonce
       THEN \/ /\ nonceAnswers' = Append(nonceAnswers, chainNonce)
               /\ opts' = [opts EXCEPT !.Nonce = <<chainNonce>>]
               /\ bpc' = "loop"
               /\ bi' = 1
               /\ txs' = [i \in 1..Len(txSubmissions) |-> NilTx]
               /\ UNCHANGED batchReturn
            \/ /\ nonceAnswers' = Append(nonceAnswers, NonceAtFailed)
               /\ bpc' = "failed"
               /\ batchReturn' = [err |-> "error getting latest nonce", txs |-> <<>>]
               /\ UNCHANGED <<opts, bi, txs>>
       ELSE /\ bpc' = "loop"
            /\ bi' = 1
            /\ txs' = [i \in 1..Len(txSubmissions) |-> NilTx]
            /\ UNCHANGED <<opts, nonceAnswers, batchReturn>>
    /\ UNCHANGED <<managerVars, proxyVars, restVars, txSubmissions, chainNonce, entryNonce,
                   execArgs>>

\* the failing turn hands back the transactions built so far
BatchLoopPartial ==
    /\ bpc = "loop"
    /\ bi <= Len(txSubmissions)
    /\ LET txSubmission == txSubmissions[bi]
           txInfo == txSubmission.TxInfo
           withGas == [opts EXCEPT !.GasLimit = txSubmission.GasLimit]
       IN \/ /\ txs' = [txs EXCEPT ![bi] = ExecuteTransactionRaw(
                                txInfo.To, txInfo.Data, txInfo.Value, withGas)]
             /\ opts' = [withGas EXCEPT !.Nonce = NextNonce(withGas.Nonce)]
             /\ bi' = bi + 1
             /\ UNCHANGED <<bpc, batchReturn>>
          \/ /\ opts' = withGas
             /\ bpc' = "failed"
             /\ batchReturn' = [err |-> "error creating transaction",
                                txs |-> SubSeq(txs, 1, bi - 1)]
             /\ UNCHANGED <<txs, bi>>
    /\ UNCHANGED <<managerVars, proxyVars, restVars, txSubmissions, chainNonce,
                   nonceAnswers, entryNonce, execArgs>>

\* lines 241-251: one turn of the loop
BatchLoop ==
    /\ bpc = "loop"
    /\ bi <= Len(txSubmissions)
    /\ LET txSubmission == txSubmissions[bi]
           txInfo == txSubmission.TxInfo
           withGas == [opts EXCEPT !.GasLimit = txSubmission.GasLimit]
       IN \/ /\ txs' = [txs EXCEPT ![bi] = ExecuteTransactionRaw(
                                txInfo.To, txInfo.Data, txInfo.Value, withGas)]
             /\ opts' = [withGas EXCEPT !.Nonce = NextNonce(withGas.Nonce)]
             /\ bi' = bi + 1
             /\ UNCHANGED <<bpc, batchReturn>>
          \/ /\ opts' = withGas
             /\ bpc' = "failed"
             /\ batchReturn' = [err |-> "error creating transaction", txs |-> <<>>]
             /\ UNCHANGED <<txs, bi>>
    /\ UNCHANGED <<managerVars, proxyVars, restVars, txSubmissions, chainNonce,
                   nonceAnswers, entryNonce, execArgs>>

\* line 252: return txs, nil
BatchReturn ==
    /\ bpc = "loop"
    /\ bi > Len(txSubmissions)
    /\ bpc' = "done"
    /\ batchReturn' = [err |-> "nil", txs |-> txs]
    /\ UNCHANGED <<managerVars, proxyVars, restVars, txSubmissions, opts, bi, txs,
                   chainNonce, nonceAnswers, entryNonce, execArgs>>

\* the caller takes what the bundle returned; its opts stay as the bundle left them
BatchTaken ==
    /\ bpc \in {"done", "failed", "executed"}
    /\ bpc' = "idle"
    /\ txSubmissions' = <<>>
    /\ bi' = 0
    /\ txs' = <<>>
    /\ batchReturn' = NoReturn
    /\ nonceAnswers' = <<>>
    /\ entryNonce' = NilNonce
    /\ execArgs' = NoArgs
    /\ UNCHANGED <<managerVars, proxyVars, restVars, opts, chainNonce>>

\* the chain moves on: another transaction of the sender is mined
ChainAdvance ==
    /\ chainNonce < MaxNonce
    /\ chainNonce' = chainNonce + 1
    /\ UNCHANGED <<managerVars, proxyVars, restVars, bpc, txSubmissions, opts, bi, txs,
                   batchReturn, nonceAnswers, entryNonce, execArgs>>

\* ExecuteTransaction and SignTransaction: one transaction is built from txInfo
\* and the caller's opts, which carry a nonce; RawTransact returns it or fails
ExecuteOne(op, txInfo, o) ==
    /\ bpc = "idle"
    /\ o.Nonce # NilNonce
    /\ execArgs' = [op |-> op, txInfo |-> txInfo, opts |-> o]
    /\ opts' = IF op = "SignTransaction" THEN [o EXCEPT !.NoSend = TRUE] ELSE o
    /\ \/ /\ bpc' = "executed"
          /\ batchReturn' = [err |-> "nil",
                             txs |-> <<ExecuteTransactionRaw(
                                  txInfo.To, txInfo.Data, txInfo.Value, opts')>>]
       \/ /\ bpc' = "failed"
          /\ batchReturn' = [err |-> "error creating transaction", txs |-> <<>>]
    /\ UNCHANGED <<managerVars, proxyVars, restVars, txSubmissions, bi, txs,
                   chainNonce, nonceAnswers, entryNonce>>

\* Signs and submits a transaction to the network
ExecuteTransaction ==
    \E txInfo \in TxInfos, o \in CallerOpts \cup {opts} :
        ExecuteOne("ExecuteTransaction", txInfo, o)

\* Signs a transaction but does not submit it to the network
SignTransaction ==
    \E txInfo \in TxInfos, o \in CallerOpts \cup {opts} :
        ExecuteOne("SignTransaction", txInfo, o)

NextBatch ==
    \/ BatchExecuteTransactions
    \/ ExecuteTransaction
    \/ SignTransaction
    \/ BatchGetNonce
    \/ BatchLoop
    \/ BatchReturn
    \/ BatchTaken
    \/ ChainAdvance

(***************************************************************************)
(* The TransactionManager: simulation.  Its client is the                  *)
(* ExecutionClientManager, so EstimateGas is a call through runFunction1,  *)
(* made with context.Background(): a context without a logger.             *)
(***************************************************************************)
\* the proxy caller that stands for the TransactionManager
TxCaller == 1

\* Prefix for errors caused by gas estimation
gasSimErrorPrefix == "error estimating gas needed"

\* a call of NewTransactionManager: lines 56-66
CallNewTransactionManager(safeGasBuffer, safeGasMultiplier) ==
    /\ simpc = "idle"
    /\ LET tm == NewTransactionManager(safeGasBuffer, safeGasMultiplier) IN
       built' = [err |-> tm.err, called |-> TRUE,
                 safeGasBuffer |-> safeGasBuffer,
                 safeGasMultiplier |-> safeGasMultiplier, manager |-> tm.err = ""]
    /\ UNCHANGED <<managerVars, proxyVars, batchVars, simVars, waitVars, queryVars,
                   beaconVars, runArgs, function, returned>>

\* a direct call of GetSafeGasLimit
CallGetSafeGasLimit(estimate) ==
    /\ simpc = "idle"
    /\ LET safe == GetSafeGasLimit(estimate) IN
       safeGas' = [err |-> safe.err, limit |-> safe.limit,
                   called |-> TRUE, estimate |-> estimate]
    /\ UNCHANGED <<managerVars, proxyVars, batchVars, callVars, beaconVars,
                   waitVars, queryVars, buffer,
                   multiplier, simpc, simEstimate, simResult>>

\* a request without opts answered as a simulation that found no gas
SimulateTransactionSimulated(optsNil) ==
    /\ simpc = "idle"
    /\ \A c \in Callers : pc[c] = "idle"
    /\ IF optsNil
       THEN /\ simResult' = [NotSimulated EXCEPT !.IsSimulated = TRUE]
            /\ simpc' = "done"
            /\ UNCHANGED proxyVars
       ELSE /\ simpc' = "line99"
            /\ pc' = [pc EXCEPT ![TxCaller] = "line27"]
            /\ hasLogger' = [hasLogger EXCEPT ![TxCaller] = FALSE]
            /\ entered' = EnteredWith(primaryReady, fallbackReady)
            /\ calls' = [calls EXCEPT ![TxCaller] = <<>>]
            /\ lastErr' = [lastErr EXCEPT ![TxCaller] = NilErr]
            /\ result' = [result EXCEPT ![TxCaller] = NoResult]
            /\ UNCHANGED simResult
    /\ safeGas' = NoSafeGas
    /\ simEstimate' = NoEstimate
    /\ UNCHANGED <<managerVars, batchVars, callVars, beaconVars,
                   waitVars, queryVars, buffer, multiplier>>

\* lines 87-106: a request without opts is answered at once; otherwise
\* client.EstimateGas(context.Background(), ...) enters the proxy
SimulateTransaction(optsNil) ==
    /\ simpc = "idle"
    /\ \A c \in Callers : pc[c] = "idle"
    /\ IF optsNil
       THEN /\ simResult' = NotSimulated
            /\ simpc' = "done"
            /\ UNCHANGED proxyVars
       ELSE /\ simpc' = "line99"
            /\ pc' = [pc EXCEPT ![TxCaller] = "line27"]
            /\ hasLogger' = [hasLogger EXCEPT ![TxCaller] = FALSE]
            /\ entered' = EnteredWith(primaryReady, fallbackReady)
            /\ calls' = [calls EXCEPT ![TxCaller] = <<>>]
            /\ lastErr' = [lastErr EXCEPT ![TxCaller] = NilErr]
            /\ result' = [result EXCEPT ![TxCaller] = NoResult]
            /\ UNCHANGED simResult
    /\ safeGas' = NoSafeGas
    /\ simEstimate' = NoEstimate
    /\ UNCHANGED <<managerVars, batchVars, callVars, beaconVars,
                   waitVars, queryVars, buffer, multiplier>>

\* lines 107-131: EstimateGas has returned (or panicked inside the proxy)
SimulateEstimated ==
    /\ simpc = "line99"
    /\ pc[TxCaller] \in {"done", "panicked"}
    /\ LET r == result[TxCaller] IN
       IF r.kind = "panic"
       THEN /\ simpc' = "panicked"
            /\ simEstimate' = [err |-> "panic", gasLimit |-> 0]
            /\ UNCHANGED simResult
       ELSE IF r.kind # "value"
       THEN /\ simpc' = "done"
            /\ simEstimate' = [err |-> r.kind, gasLimit |-> 0]
            /\ simResult' = [IsSimulated |-> TRUE, EstimatedGasLimit |-> 0,
                             SafeGasLimit |-> 0, SimulationError |-> gasSimErrorPrefix]
       ELSE \E gasLimit \in Estimates :
            LET safe == GetSafeGasLimit(gasLimit) IN
            /\ simpc' = "done"
            /\ simEstimate' = [err |-> "", gasLimit |-> gasLimit]
            /\ simResult' =
                  IF safe.err # ""
                  THEN [IsSimulated |-> TRUE, EstimatedGasLimit |-> 0,
                        SafeGasLimit |-> 0,
                        SimulationError |-> "error estimating gas limit"]
                  ELSE [IsSimulated |-> TRUE, EstimatedGasLimit |-> gasLimit,
                        SafeGasLimit |-> safe.limit, SimulationError |-> ""]
    /\ pc' = [pc EXCEPT ![TxCaller] = "idle"]
    /\ calls' = [calls EXCEPT ![TxCaller] = <<>>]
    /\ lastErr' = [lastErr EXCEPT ![TxCaller] = NilErr]
    /\ result' = [result EXCEPT ![TxCaller] = NoResult]
    /\ UNCHANGED <<managerVars, batchVars, callVars, beaconVars,
                   waitVars, queryVars, hasLogger, entered,
                   buffer, multiplier, safeGas>>

\* the caller takes the SimulationResult (or recovers the panic)
SimulationTaken ==
    /\ simpc \in {"done", "panicked"}
    /\ simpc' = "idle"
    /\ simEstimate' = NoEstimate
    /\ simResult' = NotSimulated
    /\ UNCHANGED <<managerVars, proxyVars, batchVars, callVars, beaconVars,
                   waitVars, queryVars, buffer,
                   multiplier, safeGas>>

NextSim ==
    \/ \E estimate \in Estimates : CallGetSafeGasLimit(estimate)
    \/ \E optsNil \in BOOLEAN : SimulateTransaction(optsNil)
    \/ \E c \in Callers : CheckPrimary(c)
    \/ \E c \in Callers : TryPrimary(c)
    \/ \E c \in Callers : CheckFallback(c)
    \/ \E c \in Callers : TryFallback(c)
    \/ SimulateEstimated
    \/ SimulationTaken
    \/ \E checkChainIDs \in BOOLEAN : CheckStatus(checkChainIDs)

NextRun ==
    \/ \E fn0 \in Functions0 : runFunction0(fn0)
    \/ \E fn2 \in Functions2 : runFunction2(fn2)
    \/ \E primaryAnswer \in BeaconAnswers, fallbackAnswer \in BeaconAnswers :
          BeaconClientManagerGetBeaconBlock(primaryAnswer, fallbackAnswer)
    \/ \E c \in Callers : CheckPrimary(c)
    \/ FunctionOnPrimary
    \/ \E c \in Callers : CheckFallback(c)
    \/ FunctionOnFallback
    \/ RunnerReturns
    \/ RunnerTaken
    \/ \E checkChainIDs \in BOOLEAN : CheckStatus(checkChainIDs)

\* the constructor and the gas limits of the managers it built
NextNew ==
    \/ \E safeGasBuffer \in Buffers, safeGasMultiplier \in MultiplierInputs :
          CallNewTransactionManager(safeGasBuffer, safeGasMultiplier)
    \/ \E estimate \in Estimates : CallGetSafeGasLimit(estimate)

(***************************************************************************)
(* The TransactionManager: waiting for transactions.                       *)
(***************************************************************************)
\* the attempts of getTransactionFromHash
LookupAttempts == 30

\* the operations that wait for a list, one goroutine of an errgroup each
GroupOps == {"WaitForTransactions", "WaitForTransactionsByHash"}

\* the operations that start from a hash
ByHashOps == {"WaitForTransactionByHash", "WaitForTransactionsByHash"}

\* a waiting operation starts: on one transaction or hash, or on a list of n,
\* for which wg.Go starts one wait each
StartWait(op, n) ==
    /\ waitOp = NoWait
    /\ op \notin GroupOps => n = 1
    /\ waitOp' = [op |-> op, n |-> n]
    /\ wpc' = [w \in Waits |-> IF w > n THEN "idle"
                               ELSE IF op \in ByHashOps THEN "lookup" ELSE "poll"]
    /\ UNCHANGED <<managerVars, proxyVars, batchVars, callVars, beaconVars,
                   simVars, queryVars, lookups, receipt, werr,
                   groupErr, waitReturn, cancelled>>

\* the wait w returns err; in an errgroup the first error is kept
WaitEnds(w, err) ==
    /\ wpc' = [wpc EXCEPT ![w] = "returned"]
    /\ werr' = [werr EXCEPT ![w] = err]
    /\ groupErr' = IF waitOp.op \in GroupOps /\ err # "nil" /\ groupErr = 0
                   THEN w ELSE groupErr

\* getTransactionFromHash, one turn of its loop: lines 329-339; the count of
\* its turns ends with the function
Lookup(w) ==
    /\ wpc[w] = "lookup"
    /\ \E answer \in {"tx", "not found", "other error"} :
          IF answer = "tx"
          THEN /\ wpc' = [wpc EXCEPT ![w] = "poll"]
               /\ lookups' = [lookups EXCEPT ![w] = 0]
               /\ UNCHANGED <<werr, groupErr>>
          ELSE IF answer = "not found"
          THEN /\ wpc' = [wpc EXCEPT ![w] = "sleep"]
               /\ lookups' = [lookups EXCEPT ![w] = @ + 1]
               /\ UNCHANGED <<werr, groupErr>>
          ELSE /\ WaitEnds(w, "error getting transaction: other error")
               /\ lookups' = [lookups EXCEPT ![w] = 0]
    /\ UNCHANGED <<managerVars, proxyVars, batchVars, callVars, beaconVars,
                   simVars, queryVars, waitOp, receipt,
                   waitReturn, cancelled>>

\* the next turn after a pause that is one too many
SleepOneMore(w) ==
    /\ wpc[w] = "sleep"
    /\ IF lookups[w] <= LookupAttempts
       THEN /\ wpc' = [wpc EXCEPT ![w] = "lookup"]
            /\ UNCHANGED <<lookups, werr, groupErr>>
       ELSE /\ WaitEnds(w, "error getting transaction: not found after 30 seconds")
            /\ lookups' = [lookups EXCEPT ![w] = 0]
    /\ UNCHANGED <<managerVars, proxyVars, batchVars, callVars, beaconVars,
                   simVars, queryVars, waitOp, receipt,
                   waitReturn, cancelled>>

\* time.Sleep(1 * time.Second) is over: the next turn, or line 342 after the last
Sleep(w) ==
    /\ wpc[w] = "sleep"
    /\ IF lookups[w] < LookupAttempts
       THEN /\ wpc' = [wpc EXCEPT ![w] = "lookup"]
            /\ UNCHANGED <<lookups, werr, groupErr>>
       ELSE /\ WaitEnds(w, "error getting transaction: not found after 30 seconds")
            /\ lookups' = [lookups EXCEPT ![w] = 0]
    /\ UNCHANGED <<managerVars, proxyVars, batchVars, callVars, beaconVars,
                   simVars, queryVars, waitOp, receipt,
                   waitReturn, cancelled>>

\* every receipt taken for a success
PollAnyReceipt(w) ==
    /\ wpc[w] = "poll"
    /\ \E answer \in {"status 0", "status 1", "no receipt", "WaitMined error"} :
          IF answer = "no receipt"
          THEN /\ wpc' = [wpc EXCEPT ![w] = "tick"]
               /\ UNCHANGED <<receipt, werr, groupErr>>
          ELSE IF answer = "WaitMined error"
          THEN /\ WaitEnds(w, "error running transaction")
               /\ UNCHANGED receipt
          ELSE /\ receipt' = [receipt EXCEPT ![w] = answer]
               /\ WaitEnds(w, "nil")
    /\ UNCHANGED <<managerVars, proxyVars, batchVars, callVars, beaconVars,
                   simVars, queryVars, waitOp, lookups,
                   waitReturn, cancelled>>

\* WaitForTransaction: bind.WaitMined(context.Background(), ...) asks for the
\* receipt; without one it waits for its ticker, unless it returns an error
Poll(w) ==
    /\ wpc[w] = "poll"
    /\ \E answer \in {"status 0", "status 1", "no receipt", "WaitMined error"} :
          IF answer = "no receipt"
          THEN /\ wpc' = [wpc EXCEPT ![w] = "tick"]
               /\ UNCHANGED <<receipt, werr, groupErr>>
          ELSE IF answer = "WaitMined error"
          THEN /\ WaitEnds(w, "error running transaction")
               /\ UNCHANGED receipt
          ELSE /\ receipt' = [receipt EXCEPT ![w] = answer]
               /\ WaitEnds(w, IF answer = "status 0"
                               THEN "transaction failed with status 0" ELSE "nil")
    /\ UNCHANGED <<managerVars, proxyVars, batchVars, callVars, beaconVars,
                   simVars, queryVars, waitOp, lookups,
                   waitReturn, cancelled>>

\* the ticker of WaitMined fires: the receipt is asked for again
Tick(w) ==
    /\ wpc[w] = "tick"
    /\ wpc' = [wpc EXCEPT ![w] = "poll"]
    /\ UNCHANGED <<managerVars, proxyVars, batchVars, callVars, beaconVars,
                   simVars, queryVars, waitOp, lookups, receipt,
                   werr, groupErr, waitReturn, cancelled>>

\* every wait returned at once as soon as one of them has
WaitReturnsEarly ==
    /\ waitOp # NoWait
    /\ waitReturn = "none"
    /\ \/ waitOp.n = 0
       \/ \E w \in 1..waitOp.n : wpc[w] = "returned"
    /\ waitReturn' = IF waitOp.op \in GroupOps
                     THEN IF groupErr # 0 THEN "error waiting for transactions"
                          ELSE "nil"
                     ELSE werr[1]
    /\ UNCHANGED <<managerVars, proxyVars, batchVars, callVars, beaconVars,
                   simVars, queryVars, waitOp, wpc, lookups,
                   receipt, werr, groupErr, cancelled>>

\* the operation returns: the result of its wait, or wg.Wait() once every
\* goroutine has returned
WaitReturns ==
    /\ waitOp # NoWait
    /\ waitReturn = "none"
    /\ \A w \in 1..waitOp.n : wpc[w] = "returned"
    /\ waitReturn' = IF waitOp.op \in GroupOps
                     THEN IF groupErr # 0 THEN "error waiting for transactions"
                          ELSE "nil"
                     ELSE werr[1]
    /\ UNCHANGED <<managerVars, proxyVars, batchVars, callVars, beaconVars,
                   simVars, queryVars, waitOp, wpc, lookups,
                   receipt, werr, groupErr, cancelled>>

\* the caller takes what the operation returned
WaitTaken ==
    /\ waitReturn # "none"
    /\ waitOp' = NoWait
    /\ wpc' = [w \in Waits |-> "idle"]
    /\ lookups' = [w \in Waits |-> 0]
    /\ receipt' = [w \in Waits |-> "none"]
    /\ werr' = [w \in Waits |-> "none"]
    /\ groupErr' = 0
    /\ waitReturn' = "none"
    /\ cancelled' = FALSE
    /\ UNCHANGED <<managerVars, proxyVars, batchVars, callVars, beaconVars,
                   simVars, queryVars>>

\* the caller's context is cancelled while the operation runs; the operations
\* take no context and give context.Background() to the client
Cancel ==
    /\ waitOp # NoWait
    /\ waitReturn = "none"
    /\ ~cancelled
    /\ cancelled' = TRUE
    /\ UNCHANGED <<managerVars, proxyVars, batchVars, callVars, beaconVars,
                   simVars, queryVars, waitOp, wpc, lookups,
                   receipt, werr, groupErr, waitReturn>>

NextWait ==
    \/ \E op \in GroupOps \cup ByHashOps \cup {"WaitForTransaction"}, n \in 0..NumWaits :
          StartWait(op, n)
    \/ \E w \in Waits : Lookup(w)
    \/ \E w \in Waits : Sleep(w)
    \/ \E w \in Waits : Poll(w)
    \/ \E w \in Waits : Tick(w)
    \/ WaitReturns
    \/ WaitTaken
    \/ Cancel

(***************************************************************************)
(* The QueryManager.  A read set is the sequence of the indices of its     *)
(* calls; queryOp.failing holds the indices whose call fails on chain.     *)
(***************************************************************************)
Min(a, b) == IF a < b THEN a ELSE b

\* mc.FlexibleCall(requireSuccess, opts) of the batch-query library: one eth_call
\* of the multicall contract's tryAggregate.  With requireSuccess a failing call
\* reverts the whole eth_call; without it every call reports its own success,
\* and the outputs of the successful calls are decoded
FlexibleCall(requireSuccess, mcCalls, failing, rpcFails) ==
    IF rpcFails
    THEN [err |-> "rpc error", results |-> <<>>, decoded |-> {}]
    ELSE IF requireSuccess /\ \E k \in 1..Len(mcCalls) : mcCalls[k] \in failing
    THEN [err |-> "execution reverted", results |-> <<>>, decoded |-> {}]
    ELSE [err |-> "",
          results |-> [k \in 1..Len(mcCalls) |-> mcCalls[k] \notin failing],
          decoded |-> {mcCalls[k] : k \in {n \in 1..Len(mcCalls) : mcCalls[n] \notin failing}}]

\* the read set of count calls
ReadSet(count) == [k \in 1..count |-> k - 1]

\* the sets of failing calls of the model: none, or one of them
FailingSets(count) == {{}} \cup {{f} : f \in 0..(count - 1)}

\* Query and FlexQuery: the multicall is built (NewMultiCaller and the query
\* function may fail) and executed
QueryOnce(op, requireSuccess, count, failing, buildErr, rpcFails) ==
    /\ qpc = "idle"
    /\ queryOp' = [op |-> op, count |-> count, batchSize |-> 0, failing |-> failing,
                   fault |-> buildErr # "" \/ rpcFails]
    /\ qpc' = "returned"
    /\ queryReturn' =
          IF buildErr # ""
          THEN [err |-> buildErr, returned |-> TRUE, results |-> <<>>, decoded |-> {}]
          ELSE LET r == FlexibleCall(requireSuccess, ReadSet(count), failing, rpcFails) IN
               IF r.err # ""
               THEN [err |-> IF requireSuccess THEN "error executing multicall" ELSE r.err,
                     returned |-> TRUE,
                     results |-> <<>>, decoded |-> {}]
               ELSE [err |-> "", returned |-> TRUE,
                     results |-> IF requireSuccess THEN <<>> ELSE r.results,
                     decoded |-> r.decoded]
    /\ UNCHANGED <<managerVars, proxyVars, batchVars, callVars, beaconVars,
                   simVars, waitVars,
                   concurrentCallLimit, qi, windows, queryErr>>

BuildErrors == {"", "error creating multicaller", "error running multicall query"}

\* the strict query run as the tolerant one
QueryTolerant(count, failing, buildErr, rpcFails) ==
    QueryOnce("Query", FALSE, count, failing, buildErr, rpcFails)

\* Run a multicall query: lines 38-63
Query(count, failing, buildErr, rpcFails) ==
    QueryOnce("Query", TRUE, count, failing, buildErr, rpcFails)

\* Run a multicall query of which calls are allowed to fail: lines 70-90
FlexQuery(count, failing, buildErr, rpcFails) ==
    QueryOnce("FlexQuery", FALSE, count, failing, buildErr, rpcFails)

\* BatchQuery and FlexBatchQuery are entered: lines 93-96 and 136-139
StartBatchQuery(op, count, batchSize, failing) ==
    /\ qpc = "idle"
    /\ queryOp' = [op |-> op, count |-> count, batchSize |-> batchSize,
                   failing |-> failing, fault |-> FALSE]
    /\ qpc' = "loop"
    /\ qi' = 0
    /\ windows' = <<>>
    /\ queryErr' = ""
    /\ UNCHANGED <<managerVars, proxyVars, batchVars, callVars, beaconVars,
                   simVars, waitVars,
                   concurrentCallLimit, queryReturn>>

\* the windows whose goroutine has not returned
Running == {k \in 1..Len(windows) : windows[k].pc # "returned"}

\* an errgroup that never makes Go wait
SlotFreeAlways(limit) == TRUE

\* wg.Go of an errgroup with SetLimit(limit): a negative limit is no limit,
\* otherwise Go blocks while limit goroutines are running
SlotFree(limit) == limit < 0 \/ Cardinality(Running) < limit

NewWindow(i, max) ==
    [err |-> "", results |-> <<>>, pc |-> "start", i |-> i, max |-> max,
     added |-> <<>>, mcalls |-> 0, handled |-> <<>>]

\* a window that is not cut at count
DispatchUnclamped ==
    /\ qpc = "loop"
    /\ qi < queryOp.count
    /\ SlotFree(concurrentCallLimit)
    /\ windows' = Append(windows, NewWindow(qi, qi + queryOp.batchSize))
    /\ qi' = qi + queryOp.batchSize
    /\ UNCHANGED <<managerVars, proxyVars, batchVars, callVars, beaconVars,
                   simVars, waitVars,
                   concurrentCallLimit, queryOp, qpc, queryErr, queryReturn>>

\* one turn of the dispatching loop: lines 99-124
Dispatch ==
    /\ qpc = "loop"
    /\ qi < queryOp.count
    /\ SlotFree(concurrentCallLimit)
    /\ LET max == IF qi + queryOp.batchSize > queryOp.count
                  THEN queryOp.count ELSE qi + queryOp.batchSize
       IN windows' = Append(windows, NewWindow(qi, max))
    /\ qi' = qi + queryOp.batchSize
    /\ UNCHANGED <<managerVars, proxyVars, batchVars, callVars, beaconVars,
                   simVars, waitVars,
                   concurrentCallLimit, queryOp, qpc, queryErr, queryReturn>>

\* the loop ends: wg.Wait() is entered
DispatchEnds ==
    /\ qpc = "loop"
    /\ qi >= queryOp.count
    /\ qpc' = "wait"
    /\ UNCHANGED <<managerVars, proxyVars, batchVars, callVars, beaconVars,
                   simVars, waitVars,
                   concurrentCallLimit, queryOp, qi, windows, queryErr, queryReturn>>

\* the goroutine of window k returns err; the errgroup keeps the first error
WindowEnds(k, w, err) ==
    /\ windows' = [windows EXCEPT ![k] = [w EXCEPT !.pc = "returned", !.err = err]]
    /\ queryErr' = IF err # "" /\ queryErr = "" THEN err ELSE queryErr

\* lines 108-111: the window's multicaller is created
WindowStart(k) ==
    /\ k \in 1..Len(windows)
    /\ windows[k].pc = "start"
    /\ \/ /\ windows' = [windows EXCEPT ![k].pc = "adding"]
          /\ UNCHANGED queryErr
       \/ WindowEnds(k, windows[k], "error creating multicaller")
    /\ UNCHANGED <<managerVars, proxyVars, batchVars, callVars, beaconVars,
                   simVars, waitVars,
                   concurrentCallLimit, queryOp, qpc, qi, queryReturn>>

\* the window's indices passed to the adder from the last to the first
WindowAddDescending(k) ==
    /\ k \in 1..Len(windows)
    /\ windows[k].pc = "adding"
    /\ LET w == windows[k]
           j == w.max - 1 - Len(w.added)
       IN /\ j >= w.i
          /\ \/ /\ windows' = [windows EXCEPT ![k].added = Append(@, j)]
                /\ UNCHANGED queryErr
             \/ WindowEnds(k, [w EXCEPT !.added = Append(@, j)],
                           "error running query adder")
    /\ UNCHANGED <<managerVars, proxyVars, batchVars, callVars, beaconVars,
                   simVars, waitVars,
                   concurrentCallLimit, queryOp, qpc, qi, queryReturn>>

\* lines 112-117: query(mc, j) for the next j of the window
WindowAdd(k) ==
    /\ k \in 1..Len(windows)
    /\ windows[k].pc = "adding"
    /\ LET w == windows[k]
           j == w.i + Len(w.added)
       IN /\ j < w.max
          /\ \/ /\ windows' = [windows EXCEPT ![k].added = Append(@, j)]
                /\ UNCHANGED queryErr
             \/ WindowEnds(k, [w EXCEPT !.added = Append(@, j)],
                           "error running query adder")
    /\ UNCHANGED <<managerVars, proxyVars, batchVars, callVars, beaconVars,
                   simVars, waitVars,
                   concurrentCallLimit, queryOp, qpc, qi, queryReturn>>

\* lines 118-122 and 161-164: the window's multicall is executed
WindowCall(k) ==
    /\ k \in 1..Len(windows)
    /\ windows[k].pc = "adding"
    /\ LET w == [windows[k] EXCEPT !.mcalls = @ + 1]
           strict == queryOp.op = "BatchQuery"
       IN /\ w.i + Len(w.added) >= w.max
          /\ \E rpcFails \in BOOLEAN :
                LET r == FlexibleCall(strict, w.added, queryOp.failing, rpcFails) IN
                IF r.err # ""
                THEN WindowEnds(k, w, "error executing multicall")
                ELSE IF strict
                THEN WindowEnds(k, w, "")
                ELSE /\ windows' = [windows EXCEPT ![k] =
                                       [w EXCEPT !.pc = "handling", !.results = r.results]]
                     /\ UNCHANGED queryErr
    /\ UNCHANGED <<managerVars, proxyVars, batchVars, callVars, beaconVars,
                   simVars, waitVars,
                   concurrentCallLimit, queryOp, qpc, qi, queryReturn>>

\* handleResult given the position inside the window
WindowHandleOffset(k) ==
    /\ k \in 1..Len(windows)
    /\ windows[k].pc = "handling"
    /\ LET w == windows[k]
           j == Len(w.handled)
       IN IF j < Len(w.results)
          THEN LET call == [index |-> j, success |-> w.results[j + 1]] IN
               \/ /\ windows' = [windows EXCEPT ![k].handled = Append(@, call)]
                  /\ UNCHANGED queryErr
               \/ WindowEnds(k, [w EXCEPT !.handled = Append(@, call)],
                             "error running query result handler")
          ELSE WindowEnds(k, w, "")
    /\ UNCHANGED <<managerVars, proxyVars, batchVars, callVars, beaconVars,
                   simVars, waitVars,
                   concurrentCallLimit, queryOp, qpc, qi, queryReturn>>

\* lines 118 and 161: the multicall of window k calls q.client.CallContract,
\* which enters runFunction1 (ec-manager.go:108-112) as caller k
WindowCallStarts(k) ==
    /\ k \in 1..Len(windows)
    /\ k \in Callers
    /\ windows[k].pc = "adding"
    /\ windows[k].i + Len(windows[k].added) >= windows[k].max
    /\ pc[k] = "idle"
    /\ windows' = [windows EXCEPT ![k].pc = "calling", ![k].mcalls = @ + 1]
    /\ pc' = [pc EXCEPT ![k] = "line27"]
    /\ \E l \in BOOLEAN : hasLogger' = [hasLogger EXCEPT ![k] = l]
    /\ entered' = EnteredWith(primaryReady, fallbackReady)
    /\ calls' = [calls EXCEPT ![k] = <<>>]
    /\ lastErr' = [lastErr EXCEPT ![k] = NilErr]
    /\ result' = [result EXCEPT ![k] = NoResult]
    /\ UNCHANGED <<managerVars, batchVars, callVars, beaconVars, simVars, waitVars,
                   concurrentCallLimit, queryOp, qpc, qi, queryErr, queryReturn>>

\* lines 118-122 and 161-164: CallContract has returned to the multicall of
\* window k, or has panicked inside the proxy, which ends the process
WindowCallEnds(k) ==
    /\ k \in 1..Len(windows)
    /\ k \in Callers
    /\ windows[k].pc = "calling"
    /\ pc[k] \in {"done", "panicked"}
    /\ LET w == windows[k]
           strict == queryOp.op = "BatchQuery"
           r == FlexibleCall(strict, w.added, queryOp.failing,
                             result[k].kind # "value")
       IN IF result[k].kind = "panic"
          THEN /\ windows' = [windows EXCEPT ![k].pc = "panicked"]
               /\ UNCHANGED queryErr
          ELSE IF r.err # ""
          THEN WindowEnds(k, w, "error executing multicall")
          ELSE IF strict
          THEN WindowEnds(k, w, "")
          ELSE /\ windows' = [windows EXCEPT ![k] =
                                 [w EXCEPT !.pc = "handling", !.results = r.results]]
               /\ UNCHANGED queryErr
    /\ pc' = [pc EXCEPT ![k] = "idle"]
    /\ hasLogger' = [hasLogger EXCEPT ![k] = FALSE]
    /\ calls' = [calls EXCEPT ![k] = <<>>]
    /\ lastErr' = [lastErr EXCEPT ![k] = NilErr]
    /\ result' = [result EXCEPT ![k] = NoResult]
    /\ UNCHANGED <<managerVars, batchVars, callVars, beaconVars, simVars, waitVars, entered,
                   concurrentCallLimit, queryOp, qpc, qi, queryReturn>>

\* lines 165-172: handleResult(result, j+i) for the next result of the window
WindowHandle(k) ==
    /\ k \in 1..Len(windows)
    /\ windows[k].pc = "handling"
    /\ LET w == windows[k]
           j == Len(w.handled)
       IN IF j < Len(w.results)
          THEN LET call == [index |-> j + w.i, success |-> w.results[j + 1]] IN
               \/ /\ windows' = [windows EXCEPT ![k].handled = Append(@, call)]
                  /\ UNCHANGED queryErr
               \/ WindowEnds(k, [w EXCEPT !.handled = Append(@, call)],
                             "error running query result handler")
          ELSE WindowEnds(k, w, "")
    /\ UNCHANGED <<managerVars, proxyVars, batchVars, callVars, beaconVars,
                   simVars, waitVars,
                   concurrentCallLimit, queryOp, qpc, qi, queryReturn>>

\* lines 127-131: wg.Wait() returns once every goroutine has returned
BatchQueryReturns ==
    /\ qpc = "wait"
    /\ Running = {}
    /\ qpc' = "returned"
    /\ queryReturn' = [err |-> IF queryErr # "" THEN "error during multicall query"
                               ELSE "",
                       returned |-> TRUE,
                       results |-> <<>>, decoded |-> {}]
    /\ UNCHANGED <<managerVars, proxyVars, batchVars, callVars, beaconVars,
                   simVars, waitVars,
                   concurrentCallLimit, queryOp, qi, windows, queryErr>>

\* the caller takes what the query returned
QueryTaken ==
    /\ qpc = "returned"
    /\ queryOp' = NoQuery
    /\ qpc' = "idle"
    /\ qi' = 0
    /\ windows' = <<>>
    /\ queryErr' = ""
    /\ queryReturn' = NoQueryReturn
    /\ UNCHANGED <<managerVars, proxyVars, batchVars, callVars, beaconVars,
                   simVars, waitVars,
                   concurrentCallLimit>>

NextQuery ==
    \/ \E count \in 0..MaxCount, buildErr \in BuildErrors, rpcFails \in BOOLEAN :
          \E failing \in FailingSets(count) : Query(count, failing, buildErr, rpcFails)
    \/ \E count \in 0..MaxCount, buildErr \in BuildErrors, rpcFails \in BOOLEAN :
          \E failing \in FailingSets(count) : FlexQuery(count, failing, buildErr, rpcFails)
    \/ \E op \in {"BatchQuery", "FlexBatchQuery"}, count \in 0..MaxCount,
          batchSize \in 1..MaxBatchSize :
          \E failing \in FailingSets(count) : StartBatchQuery(op, count, batchSize, failing)
    \/ Dispatch
    \/ DispatchEnds
    \/ \E k \in 1..MaxCount : WindowStart(k)
    \/ \E k \in 1..MaxCount : WindowAdd(k)
    \/ \E k \in 1..MaxCount : WindowCall(k)
    \/ \E k \in 1..MaxCount : WindowHandle(k)
    \/ BatchQueryReturns
    \/ QueryTaken

\* the batch queries with their multicalls sent through the
\* ExecutionClientManager; a batch has at most NumCallers windows
NextQueryEc ==
    \/ \E op \in {"BatchQuery", "FlexBatchQuery"}, count \in 1..MaxCount,
          batchSize \in 1..MaxBatchSize :
          /\ (count + batchSize - 1) \div batchSize <= NumCallers
          /\ StartBatchQuery(op, count, batchSize, {})
    \/ Dispatch
    \/ DispatchEnds
    \/ \E k \in Callers : WindowStart(k)
    \/ \E k \in Callers : WindowAdd(k)
    \/ \E k \in Callers : WindowCallStarts(k)
    \/ \E c \in Callers : CheckPrimary(c)
    \/ \E c \in Callers : TryPrimary(c)
    \/ \E c \in Callers : CheckFallback(c)
    \/ \E c \in Callers : TryFallback(c)
    \/ \E k \in Callers : WindowCallEnds(k)
    \/ \E k \in Callers : WindowHandle(k)
    \/ BatchQueryReturns
    \/ QueryTaken

\* the batch sizes a caller may pass: batchSize is an int the code never checks
BatchSizes == -1..MaxBatchSize

\* a turn of the dispatching loop, followed for the first MaxWindows windows
DispatchCapped ==
    /\ Len(windows) < MaxWindows
    /\ Dispatch

\* BatchQuery and FlexBatchQuery called with any batchSize
NextQueryAnySize ==
    \/ \E op \in {"BatchQuery", "FlexBatchQuery"}, count \in 0..MaxCount,
          batchSize \in BatchSizes : StartBatchQuery(op, count, batchSize, {})
    \/ DispatchCapped
    \/ DispatchEnds
    \/ \E k \in 1..MaxWindows : WindowStart(k)
    \/ \E k \in 1..MaxWindows : WindowAdd(k)
    \/ \E k \in 1..MaxWindows : WindowCall(k)
    \/ \E k \in 1..MaxWindows : WindowHandle(k)
    \/ BatchQueryReturns
    \/ QueryTaken

\* the setters of the flags and the status check with its report
NextStatus ==
    \/ \E ready \in BOOLEAN : SetPrimaryReady(ready)
    \/ \E ready \in BOOLEAN : SetFallbackReady(ready)
    \/ \E checkChainIDs \in BOOLEAN :
          \E primaryStatus \in Statuses[checkChainIDs],
             fallbackStatus \in Statuses[checkChainIDs] :
             CheckStatusReport(checkChainIDs, primaryStatus, fallbackStatus)

(***************************************************************************)
(* The Beacon HTTP client: proposer duties.                                *)
(***************************************************************************)
\* the validators of one request to the Beacon node
MaxRequestValidatorsCount == 600

\* validator indices, as the strings the Beacon API uses
ValidatorIndices == {"1", "2", "3"}

\* the indices a caller asks for
IndexLists == SeqsUpTo(ValidatorIndices \ {"3"}, MaxIndices)

\* what the Beacon node answers to the request for the duties of an epoch:
\* an error of the request, a status that is not 200, a body that does not
\* decode, or the duties of the epoch, one entry for each slot with a proposer
DutyAnswers ==
    {[kind |-> k, data |-> <<>>] : k \in {"error", "status", "undecodable"}}
        \cup {[kind |-> "ok", data |-> d] : d \in SeqsUpTo(ValidatorIndices, MaxDuties)}

\* the inner loop over response.Data from entry k on: the first entry of the
\* validator adds one and breaks
RECURSIVE ProposerDuties(_, _, _)
ProposerDuties(index, data, k) ==
    IF k > Len(data) THEN 0
    ELSE IF data[k] = index THEN 1
    ELSE ProposerDuties(index, data, k + 1)

\* Sums proposer duties per validators for a given epoch
GetValidatorProposerDuties(indices, answer) ==
    IF answer.kind = "error"
    THEN [err |-> "error getting validator proposer duties", proposerMap |-> <<>>]
    ELSE IF answer.kind = "status"
    THEN [err |-> "error getting validator proposer duties: HTTP status", proposerMap |-> <<>>]
    ELSE IF answer.kind = "undecodable"
    THEN [err |-> "error decoding validator proposer duties data", proposerMap |-> <<>>]
    ELSE [err |-> "",
          proposerMap |->
              [index \in {indices[n] : n \in 1..Len(indices)} |->
                  ProposerDuties(index, answer.data, 1)]]

\* a caller asks for the proposer duties of some validators
CallGetValidatorProposerDuties(indices, answer) ==
    /\ LET ret == GetValidatorProposerDuties(indices, answer) IN
       duties' = [err |-> ret.err, data |-> answer.data, called |-> TRUE,
                  indices |-> indices, proposerMap |-> ret.proposerMap]
    /\ UNCHANGED <<managerVars, proxyVars, batchVars, simVars, waitVars, queryVars,
                   callVars, managerStatus, pool, decoders, requests, fetch>>

NextDuties ==
    \E indices \in IndexLists, answer \in DutyAnswers :
        CallGetValidatorProposerDuties(indices, answer)

(***************************************************************************)
(* The Beacon client: validators fetched in batches by an errgroup.        *)
(***************************************************************************)
\* runtime.NumCPU() on the machines of the model
NumCPUs == 1..MaxCPU

\* the lengths of pubkeysOrIndices: lists of up to MaxFetches requests
ValidatorCounts ==
    {0, 1} \cup {n * MaxRequestValidatorsCount + more :
                    n \in 1..(MaxFetches - 1), more \in {0, 1}}

\* the goroutines of the errgroup that have not returned
Fetching == {k \in 1..Len(fetch.workers) : fetch.workers[k].pc = "running"}

\* lines 548-552: the slices are made and the errgroup gets its limit
getValidatorsByOpts(count, numCPU) ==
    /\ fetch.pc = "idle"
    /\ fetch' = [err |-> "", limit |-> numCPU \div 2, count |-> count, pc |-> "loop",
                 i |-> 0, workers |-> <<>>]
    /\ UNCHANGED <<managerVars, proxyVars, batchVars, simVars, waitVars, queryVars,
                   callVars, managerStatus, pool, decoders, requests, duties>>

\* lines 553-573: one turn of the loop; wg.Go blocks while limit goroutines
\* are running, and a negative limit is no limit
Go ==
    /\ fetch.pc = "loop"
    /\ fetch.i < fetch.count
    /\ fetch.limit < 0 \/ Cardinality(Fetching) < fetch.limit
    /\ LET max == IF fetch.i + MaxRequestValidatorsCount > fetch.count
                  THEN fetch.count ELSE fetch.i + MaxRequestValidatorsCount
       IN fetch' = [fetch EXCEPT
                       !.workers = Append(@, [err |-> "", pc |-> "running",
                                              i |-> fetch.i, max |-> max]),
                       !.i = @ + MaxRequestValidatorsCount]
    /\ UNCHANGED <<managerVars, proxyVars, batchVars, simVars, waitVars, queryVars,
                   callVars, managerStatus, pool, decoders, requests, duties>>

\* the loop ends: wg.Wait() is entered
GoEnds ==
    /\ fetch.pc = "loop"
    /\ fetch.i >= fetch.count
    /\ fetch' = [fetch EXCEPT !.pc = "wait"]
    /\ UNCHANGED <<managerVars, proxyVars, batchVars, simVars, waitVars, queryVars,
                   callVars, managerStatus, pool, decoders, requests, duties>>

\* lines 560-571: the goroutine of request k gets its validators or an error
\* and returns; the errgroup keeps the first error
Beacon_Validators(k) ==
    /\ k \in Fetching
    /\ \E err \in {"", "error getting validator statuses"} :
          fetch' = [fetch EXCEPT
                       !.workers[k].pc = "returned",
                       !.workers[k].err = err,
                       !.err = IF @ = "" THEN err ELSE @]
    /\ UNCHANGED <<managerVars, proxyVars, batchVars, simVars, waitVars, queryVars,
                   callVars, managerStatus, pool, decoders, requests, duties>>

\* lines 575-587: wg.Wait() returns when every goroutine has returned
getValidatorsByOptsReturns ==
    /\ fetch.pc = "wait"
    /\ Fetching = {}
    /\ fetch' = [fetch EXCEPT
                    !.pc = "returned",
                    !.err = IF @ # "" THEN "error getting validators by opts" ELSE ""]
    /\ UNCHANGED <<managerVars, proxyVars, batchVars, simVars, waitVars, queryVars,
                   callVars, managerStatus, pool, decoders, requests, duties>>

\* the caller takes what getValidatorsByOpts returned
ValidatorsTaken ==
    /\ fetch.pc = "returned"
    /\ fetch' = NoFetch
    /\ UNCHANGED <<managerVars, proxyVars, batchVars, simVars, waitVars, queryVars,
                   callVars, managerStatus, pool, decoders, requests, duties>>

NextValidators ==
    \/ \E count \in ValidatorCounts, numCPU \in NumCPUs : getValidatorsByOpts(count, numCPU)
    \/ Go
    \/ GoEnds
    \/ \E k \in 1..MaxFetches : Beacon_Validators(k)
    \/ getValidatorsByOptsReturns
    \/ ValidatorsTaken

(***************************************************************************)
(* The Beacon HTTP client: committees read through a pooled decoder.       *)
(* The body of a response is a sequence of chunks: "open" is the start of  *)
(* a JSON value, "close" its end, "bad" bytes that are no JSON.  After the *)
(* last chunk the body reports io.EOF, or an error when the connection     *)
(* broke ("reset").                                                        *)
(***************************************************************************)
Bodies == {<<>>, <<"open">>, <<"open", "close">>, <<"bad">>, <<"open", "bad">>}

\* what the Beacon node answers to the request for committees
CommitteesAnswers ==
    {[kind |-> "error", status |-> 0, body |-> <<>>, tail |-> "EOF"],
     [kind |-> "response", status |-> 500, body |-> <<>>, tail |-> "EOF"]}
        \cup {[kind |-> "response", status |-> StatusOK, body |-> b, tail |-> t] :
                 b \in Bodies, t \in {"EOF", "reset"}}

\* the requests that hold decoder d
Holders(d) ==
    {r \in Requests : requests[r].decoder = d
                        /\ requests[r].pc \in {"decode", "reading", "deferred"}}

\* committeesDecoderPool.Get(): a decoder at rest, or a new one from New,
\* the next of the decoders not created yet
PoolGet ==
    pool \cup {d \in Decoders : /\ ~decoders[d].created
                               /\ \A e \in 1..(d - 1) : decoders[e].created}

\* lines 859-886: the request is sent; with status 200 a decoder is taken
\* from the pool and given the body as its reader
getCommittees(r, answer) ==
    /\ requests[r].pc = "idle"
    /\ IF answer.kind = "error" \/ answer.status # StatusOK
       THEN /\ requests' = [requests EXCEPT ![r] =
                   [NoRequest EXCEPT !.pc = "returned", !.status = answer.status,
                                     !.err = "error getting committees"]]
            /\ UNCHANGED <<pool, decoders>>
       ELSE \E d \in PoolGet :
              /\ pool' = pool \ {d}
              /\ decoders' = [decoders EXCEPT ![d].created = TRUE,
                                              ![d].currentReader = r]
              /\ requests' = [requests EXCEPT ![r] =
                     [err |-> "", status |-> answer.status, body |-> answer.body,
                      pc |-> "decode", tail |-> answer.tail, pos |-> 0, decoder |-> d]]
    /\ UNCHANGED <<managerVars, proxyVars, batchVars, simVars, waitVars, queryVars,
                   callVars, managerStatus, duties, fetch>>

\* line 889, json.Decoder.Decode: a decoder that kept an error returns it at
\* once; otherwise the scanner is reset and a value is read
Decode(r) ==
    /\ requests[r].pc = "decode"
    /\ IF decoders[requests[r].decoder].err # ""
       THEN requests' = [requests EXCEPT ![r].pc = "deferred",
                                         ![r].err = "error decoding committees"]
       ELSE requests' = [requests EXCEPT ![r].pc = "reading"]
    /\ UNCHANGED <<managerVars, proxyVars, batchVars, simVars, waitVars, queryVars,
                   callVars, managerStatus, pool, decoders, duties, fetch>>

\* committeesDecoder.Read called by the decoder that reads a value: the next
\* chunk of the body of currentReader is scanned; a syntax error and an error
\* of the reader are kept in the decoder; io.EOF is handed on as (0, nil), so
\* the decoder, having got nothing and no error, is where it was
Read(r) ==
    /\ requests[r].pc = "reading"
    /\ LET d == requests[r].decoder
           from == decoders[d].currentReader
           at == requests[from].pos
       IN IF at < Len(requests[from].body)
          THEN LET chunk == requests[from].body[at + 1] IN
               IF chunk = "bad"
               THEN /\ decoders' = [decoders EXCEPT ![d].err = "syntax",
                                                    ![d].buf = Append(@, chunk)]
                    /\ requests' = [requests EXCEPT
                                       ![from].pos = at + 1,
                                       ![r].pc = "deferred",
                                       ![r].err = "error decoding committees"]
               ELSE IF chunk = "close"
               THEN /\ decoders' = [decoders EXCEPT ![d].buf = <<>>]
                    /\ requests' = [requests EXCEPT ![from].pos = at + 1,
                                                    ![r].pc = "deferred"]
               ELSE /\ decoders' = [decoders EXCEPT ![d].buf = Append(@, chunk)]
                    /\ requests' = [requests EXCEPT ![from].pos = at + 1]
          ELSE IF requests[from].tail = "reset"
          THEN /\ decoders' = [decoders EXCEPT ![d].err = "read"]
               /\ requests' = [requests EXCEPT ![r].pc = "deferred",
                                               ![r].err = "error decoding committees"]
          ELSE UNCHANGED <<decoders, requests>>
    /\ UNCHANGED <<managerVars, proxyVars, batchVars, simVars, waitVars, queryVars,
                   callVars, managerStatus, pool, duties, fetch>>

\* lines 882-885 and 872-874, the deferred calls: the reader reference is
\* cleared, the decoder is put back and the body is closed
PoolPut(r) ==
    /\ requests[r].pc = "deferred"
    /\ LET d == requests[r].decoder IN
       /\ decoders' = [decoders EXCEPT ![d].currentReader = 0]
       /\ pool' = pool \cup {d}
    /\ requests' = [requests EXCEPT ![r].pc = "returned"]
    /\ UNCHANGED <<managerVars, proxyVars, batchVars, simVars, waitVars, queryVars,
                   callVars, managerStatus, duties, fetch>>

\* the caller takes what getCommittees returned
CommitteesTaken(r) ==
    /\ requests[r].pc = "returned"
    /\ requests' = [requests EXCEPT ![r] = NoRequest]
    /\ UNCHANGED <<managerVars, proxyVars, batchVars, simVars, waitVars, queryVars,
                   callVars, managerStatus, pool, decoders, duties, fetch>>

\* what the goroutine of request r does once the response has arrived
RequestStep(r) == Decode(r) \/ Read(r) \/ PoolPut(r)

NextCommittees ==
    \/ \E r \in Requests, answer \in CommitteesAnswers : getCommittees(r, answer)
    \/ \E r \in Requests : Decode(r)
    \/ \E r \in Requests : Read(r)
    \/ \E r \in Requests : PoolPut(r)
    \/ \E r \in Requests : CommitteesTaken(r)

(***************************************************************************)
(* Properties of the failover proxy.                                       *)
(***************************************************************************)
\* a disconnection: a low-level network error (syscall.Errno or a net.Error)
\* somewhere in the error's chain
Disconnection(err) == \E i \in 1..Len(err) : err[i] \in {"Errno", "NetError"}

\* an application-level error
ApplicationError(err) == err # NilErr /\ ~Disconnection(err)

Ended(c) == pc[c] \in {"done", "panicked"}

Invoked(c, client) == \E i \in 1..Len(calls[c]) : calls[c][i] = client

\* the step invokes the wrapped function of caller c on client
Invokes(c, client) == calls'[c] = Append(calls[c], client)

\* C1: a call that enters the proxy while the primary is marked ready invokes the
\* wrapped function on the primary first, and invokes it on the fallback only
\* right after an invocation on the primary that returned a disconnection error.
C1_PrimaryFirst ==
    [][\A c \in Callers :
        /\ (pc'[c] # "idle" /\ entered'.primaryReady /\ calls'[c] # <<>>)
               => calls'[c][1] = "primary"
        /\ (Invokes(c, "fallback") /\ entered.primaryReady)
               => /\ calls[c] # <<>>
                  /\ calls[c][Len(calls[c])] = "primary"
                  /\ Disconnection(lastErr[c])]_vars

C1_Witness ==
    \E c \in Callers :
        /\ pc[c] = "done"
        /\ entered.primaryReady
        /\ calls[c] = <<"primary", "fallback">>
        /\ result[c].kind = "value"

\* C2: when the primary is marked ready, a fallback is configured and the wrapped
\* function fails on the primary with a disconnection error, the same call
\* invokes the wrapped function on the fallback before it ends.
C2_FallbackTried ==
    \A c \in Callers :
        (/\ Ended(c)
         /\ entered.primaryReady
         /\ IsFallbackEnabled
         /\ calls[c] # <<>>
         /\ calls[c][1] = "primary"
         /\ (Len(calls[c]) = 1 => Disconnection(lastErr[c])))
            => Invoked(c, "fallback")

\* C3: a step of the proxy marks the primary not-ready only when it invoked the
\* wrapped function on the primary and got a disconnection error; an
\* application error from the primary leaves primaryReady as it was.
C3_NotReadyOnlyOnDisconnect ==
    [][/\ (pc' # pc /\ primaryReady /\ ~primaryReady')
            => \E c \in Callers : Invokes(c, "primary") /\ Disconnection(lastErr'[c])
       /\ \A c \in Callers :
            (Invokes(c, "primary") /\ ApplicationError(lastErr'[c]))
                => primaryReady' = primaryReady]_vars

C3_Witness ==
    \E c \in Callers :
        /\ pc[c] = "done"
        /\ calls[c] = <<"primary">>
        /\ ApplicationError(lastErr[c])
        /\ primaryReady

\* C4: when the wrapped function returns an application error on the client it
\* was invoked on, that step ends the call with that same error as its result
\* (so no other client is invoked) and changes neither readiness flag.
C4_ApplicationErrorVerbatim ==
    [][\A c \in Callers :
        (Len(calls'[c]) = Len(calls[c]) + 1 /\ ApplicationError(lastErr'[c]))
            => /\ pc'[c] = "done"
               /\ result'[c].kind = "error"
               /\ result'[c].err = lastErr'[c]
               /\ primaryReady' = primaryReady
               /\ fallbackReady' = fallbackReady]_vars

C4_Witness ==
    \E c \in Callers :
        /\ pc[c] = "done"
        /\ calls[c] = <<"primary", "fallback">>
        /\ lastErr[c] = <<"Other", "Other">>
        /\ result[c].err = <<"Other", "Other">>
        /\ fallbackReady

\* C5: when a disconnection leaves no client to try (the primary disconnects and
\* no fallback is configured, or the fallback disconnects), the call marks that
\* client not-ready and returns the "all clients failed" error.
C5_AllFailed ==
    \A c \in Callers :
        (/\ Ended(c)
         /\ calls[c] # <<>>
         /\ Disconnection(lastErr[c])
         /\ \/ calls[c][Len(calls[c])] = "fallback" /\ IsFallbackEnabled
            \/ calls[c][Len(calls[c])] = "primary" /\ ~IsFallbackEnabled)
            => /\ result[c].kind = "allFailed"
               /\ IF calls[c][Len(calls[c])] = "primary"
                  THEN ~primaryReady ELSE ~fallbackReady

\* C6: a call that enters the proxy while both readiness flags are false returns
\* the "no clients were ready" error and never invokes the wrapped function.
C6_NoneReady ==
    \A c \in Callers :
        (pc[c] # "idle" /\ ~entered.primaryReady /\ ~entered.fallbackReady)
            => /\ calls[c] = <<>>
               /\ pc[c] # "panicked"
               /\ pc[c] = "done" => result[c].kind = "noneReady"

C6_Witness ==
    \E c \in Callers :
        /\ pc[c] = "done"
        /\ ~entered.primaryReady
        /\ ~entered.fallbackReady
        /\ result[c].kind = "noneReady"
        /\ IsFallbackEnabled

\* C7: no step of a proxy call turns a readiness flag from false to true, and a
\* call that enters while the primary is marked not-ready never invokes the
\* wrapped function on the primary, also when it succeeds on the fallback.
C7_NeverRestored ==
    [][/\ pc' # pc => /\ primaryReady' => primaryReady
                      /\ fallbackReady' => fallbackReady
       /\ \A c \in Callers :
            (pc'[c] # "idle" /\ ~entered'.primaryReady)
                => ~\E i \in 1..Len(calls'[c]) : calls'[c][i] = "primary"]_vars

C7_Witness ==
    \E c \in Callers :
        /\ pc[c] = "done"
        /\ ~entered.primaryReady
        /\ ~primaryReady
        /\ calls[c] = <<"fallback">>
        /\ result[c].kind = "value"

\* C8: a manager without a fallback client never has fallbackReady set.
C8_NoFallbackNotReady == ~IsFallbackEnabled => ~fallbackReady

\* C9: with callers and the health check on goroutines of their own, no proxy
\* call invokes the wrapped function more than twice or twice on one client,
\* and every call that ends returns a result, the function's error or one of
\* the proxy's two errors.
C9_OneExtraHop ==
    \A c \in Callers :
        /\ Len(calls[c]) <= 2
        /\ calls[c] \notin {<<"primary", "primary">>, <<"fallback", "fallback">>}
        /\ Ended(c) => result[c].kind \in {"value", "error", "allFailed", "noneReady"}

(***************************************************************************)
(* Properties of the TransactionManager.                                   *)
(***************************************************************************)
\* C10: a bundle of k submissions that returns its transactions returns k of
\* them, the i-th built from the i-th submission with nonce N + i - 1, where N
\* is opts.Nonce as passed in when it is set and otherwise the answer of the
\* single NonceAt call of the bundle; a bundle with a nonce makes no such call.
C10_NonceSequence ==
    bpc = "done" =>
        LET k == Len(txSubmissions)
            N == IF entryNonce # NilNonce THEN entryNonce[1] ELSE nonceAnswers[1]
        IN /\ Len(nonceAnswers) = (IF entryNonce = NilNonce THEN 1 ELSE 0)
           /\ Len(batchReturn.txs) = k
           /\ \A i \in 1..k :
                /\ batchReturn.txs[i].nonce = N + i - 1
                /\ batchReturn.txs[i].data = txSubmissions[i].TxInfo.Data
                /\ batchReturn.txs[i].to = txSubmissions[i].TxInfo.To

C10_Witness ==
    /\ bpc = "done"
    /\ Len(txSubmissions) = 3
    /\ entryNonce = NilNonce
    /\ nonceAnswers = <<1>>
    /\ chainNonce = 2
    /\ batchReturn.txs[3].nonce = 3
    /\ txSubmissions[1].TxInfo # txSubmissions[2].TxInfo

(***************************************************************************)
(* Properties of the gas arithmetic and of the simulation.                 *)
(***************************************************************************)
\* C11: GetSafeGasLimit(e) returns ceil(e * multiplier) + buffer when e is at
\* most the block gas limit and that value is at most the block gas limit, and
\* an error in every other case, for every buffer and multiplier of a manager.
C11_SafeGasLimit ==
    safeGas.called =>
        LET e == safeGas.estimate
            computed == CeilMul(e, multiplier) + buffer
        IN IF e <= GasLimit /\ computed <= GasLimit
           THEN safeGas.err = "" /\ safeGas.limit = computed
           ELSE safeGas.err # ""

\* C13: SimulateTransaction never ends in a crash, and when the gas estimation
\* failed or the estimate has no safe gas limit, its result has isSimulated
\* set, both gas limits 0 and a simulationError that is not empty.
C13_NeverFailsHard ==
    /\ simpc # "panicked"
    /\ (/\ simpc = "done"
        /\ \/ simEstimate.err \notin {"", "none"}
           \/ simEstimate.err = "" /\ GetSafeGasLimit(simEstimate.gasLimit).err # "")
          => /\ simResult.IsSimulated
             /\ simResult.EstimatedGasLimit = 0
             /\ simResult.SafeGasLimit = 0
             /\ simResult.SimulationError # ""

\* C14: a SimulationResult with isSimulated set has either a positive
\* estimatedGasLimit and an empty simulationError, or a simulationError that is
\* not empty, whatever estimate the client returned.
C14_ExactlyOne ==
    (simpc = "done" /\ simResult.IsSimulated)
        => ((simResult.EstimatedGasLimit > 0 /\ simResult.SimulationError = "")
            # (simResult.SimulationError # ""))

(***************************************************************************)
(* Properties of the transactions built.                                   *)
(***************************************************************************)
\* the transaction tx carries sender, fee and value as the operation was given
\* them: sender and fee of the caller's opts, value of the TransactionInfo
FromOptsButValue(tx, txInfo) ==
    /\ tx.from = execArgs.opts.From
    /\ tx.gasFeeCap = execArgs.opts.GasFeeCap
    /\ tx.value = txInfo.Value
    /\ tx.to = txInfo.To
    /\ tx.data = txInfo.Data

\* C15 as stated: every transaction ExecuteTransaction, SignTransaction and
\* BatchExecuteTransactions return has the nonce, fee, gas limit and sender of
\* the caller's opts and the value of its TransactionInfo.
C15_OptsButValue ==
    /\ bpc = "executed" =>
          LET tx == batchReturn.txs[1] IN
          /\ FromOptsButValue(tx, execArgs.txInfo)
          /\ tx.nonce = execArgs.opts.Nonce[1]
          /\ tx.gasLimit = execArgs.opts.GasLimit
    /\ bpc = "done" =>
          \A i \in 1..Len(batchReturn.txs) :
              LET tx == batchReturn.txs[i] IN
              /\ FromOptsButValue(tx, txSubmissions[i].TxInfo)
              /\ execArgs.opts.Nonce # NilNonce
                    => tx.nonce = execArgs.opts.Nonce[1] + i - 1
              /\ tx.gasLimit = execArgs.opts.GasLimit

\* C15, amended: as above, but a transaction of a bundle has the gas limit of
\* its TransactionSubmission, whatever gas limit the caller's opts carried.
C15_OptsButValueAndBundleGas ==
    /\ bpc = "executed" =>
          LET tx == batchReturn.txs[1] IN
          /\ FromOptsButValue(tx, execArgs.txInfo)
          /\ tx.nonce = execArgs.opts.Nonce[1]
          /\ tx.gasLimit = execArgs.opts.GasLimit
    /\ bpc = "done" =>
          \A i \in 1..Len(batchReturn.txs) :
              LET tx == batchReturn.txs[i] IN
              /\ FromOptsButValue(tx, txSubmissions[i].TxInfo)
              /\ execArgs.opts.Nonce # NilNonce
                    => tx.nonce = execArgs.opts.Nonce[1] + i - 1
              /\ tx.gasLimit = txSubmissions[i].GasLimit

C15_Witness ==
    /\ bpc = "done"
    /\ Len(batchReturn.txs) = 2
    /\ execArgs.opts.Value = 9
    /\ execArgs.opts.GasLimit = 50000
    /\ batchReturn.txs[1].value = 1
    /\ batchReturn.txs[2].value = 2
    /\ batchReturn.txs[1].gasLimit = 21000
    /\ batchReturn.txs[2].gasLimit = 90000

(***************************************************************************)
(* Properties of the waiting operations.                                   *)
(***************************************************************************)
\* C12: a wait whose receipt has status 0 returns an error, and a wait returns
\* nil only with a receipt of status 1; WaitForTransaction returns what its
\* wait returned.
C12_StatusZeroFails ==
    /\ \A w \in Waits :
          wpc[w] = "returned" =>
              /\ receipt[w] = "status 0" => werr[w] \notin {"nil", "none"}
              /\ werr[w] = "nil" => receipt[w] = "status 1"
    /\ (waitOp.op = "WaitForTransaction" /\ waitReturn # "none")
          => /\ waitReturn = werr[1]
             /\ waitReturn = "nil" <=> receipt[1] = "status 1"

C12_Witness ==
    /\ waitOp.op = "WaitForTransaction"
    /\ receipt[1] = "status 0"
    /\ waitReturn = "transaction failed with status 0"

\* C16: getTransactionFromHash makes at most 30 lookups; after a lookup it
\* either pauses (not found), hands the transaction to WaitForTransaction, or
\* returns the lookup's error at once; after a pause it looks up again while
\* fewer than 30 lookups were made, and gives up with an error after the 30th.
C16_ThirtyLookups ==
    [][\A w \in Waits :
        /\ lookups'[w] <= LookupAttempts
        /\ wpc'[w] = "lookup" => lookups'[w] < LookupAttempts
        /\ (wpc[w] = "lookup" /\ wpc'[w] # "lookup")
              => \/ wpc'[w] = "sleep" /\ lookups'[w] = lookups[w] + 1
                 \/ wpc'[w] = "poll" /\ werr'[w] = "none"
                 \/ /\ wpc'[w] = "returned"
                    /\ werr'[w] = "error getting transaction: other error"
        /\ (wpc[w] = "sleep" /\ wpc'[w] # "sleep")
              => IF lookups[w] < LookupAttempts
                 THEN wpc'[w] = "lookup" /\ lookups'[w] = lookups[w]
                 ELSE /\ wpc'[w] = "returned"
                      /\ werr'[w] = "error getting transaction: not found after 30 seconds"]_vars

C16_Witness ==
    /\ waitOp.op = "WaitForTransactionByHash"
    /\ waitReturn = "error getting transaction: not found after 30 seconds"

\* C17: WaitForTransactions and WaitForTransactionsByHash run one wait for each
\* element of their list; when they return every wait has returned, and they
\* return an error exactly when one of the waits returned an error.
C17_FailIfAnyFails ==
    waitOp.op \in GroupOps =>
        /\ \A w \in Waits : wpc[w] # "idle" <=> w <= waitOp.n
        /\ waitReturn # "none" =>
              /\ \A w \in 1..waitOp.n : wpc[w] = "returned"
              /\ waitReturn # "nil" <=> \E w \in 1..waitOp.n : werr[w] # "nil"

C17_Witness ==
    /\ waitOp = [op |-> "WaitForTransactionsByHash", n |-> 2]
    /\ werr[1] = "nil"
    /\ werr[2] = "error getting transaction: other error"
    /\ groupErr = 2
    /\ waitReturn = "error waiting for transactions"

\* C18: once the caller's context is cancelled, a wait that is in a pause (the
\* one-second sleep between lookups, the ticker between receipt polls) leaves
\* the pause only by returning the cancellation error.
C18_CancelUnblocks ==
    [][\A w \in Waits :
        (cancelled /\ wpc[w] \in {"sleep", "tick"} /\ wpc'[w] # wpc[w])
            => wpc'[w] = "returned" /\ werr'[w] = "context canceled"]_vars

(***************************************************************************)
(* Properties of the QueryManager.                                         *)
(***************************************************************************)
\* the places (window, position) at which index x was passed to the query adder
AdderCalls(x) ==
    {p \in (1..Len(windows)) \X (1..MaxCount) :
        p[2] <= Len(windows[p[1]].added) /\ windows[p[1]].added[p[2]] = x}

\* C19: the k-th window BatchQuery and FlexBatchQuery dispatch is
\* [(k-1)*batchSize, min(k*batchSize, count)); a window passes the indices of
\* its range to the query adder, in order, and executes at most one multicall,
\* after the last of them; no index is passed twice; once the loop has ended
\* the windows cover [0, count), and a query that returns nil has passed every
\* index of [0, count) exactly once and executed one multicall for each window.
C19_Windowing ==
    queryOp.op \in {"BatchQuery", "FlexBatchQuery"} =>
        LET count == queryOp.count
            size == queryOp.batchSize
        IN /\ \A k \in 1..Len(windows) :
                LET w == windows[k] IN
                /\ w.i = (k - 1) * size
                /\ w.i < count
                /\ w.max = Min(k * size, count)
                /\ \A n \in 1..Len(w.added) :
                      w.added[n] = w.i + n - 1 /\ w.added[n] < w.max
                /\ w.mcalls <= 1
                /\ w.mcalls = 1 => Len(w.added) = w.max - w.i
           /\ \A x \in 0..(count - 1) : Cardinality(AdderCalls(x)) <= 1
           /\ qpc \in {"wait", "returned"}
                 => Len(windows) = (count + size - 1) \div size
           /\ (queryReturn.returned /\ queryReturn.err = "")
                 => /\ \A x \in 0..(count - 1) : Cardinality(AdderCalls(x)) = 1
                    /\ \A k \in 1..Len(windows) : windows[k].mcalls = 1

C19_Witness ==
    /\ queryOp.op = "BatchQuery"
    /\ queryOp.count = 3
    /\ queryOp.batchSize = 2
    /\ queryReturn.returned
    /\ queryReturn.err = ""
    /\ Len(windows) = 2
    /\ windows[1].added = <<0, 1>>
    /\ windows[2].added = <<2>>

\* C20: for a read set in which one call fails, built and sent without a fault,
\* Query returns an error, no success vector and decodes no output, and
\* FlexQuery returns no error and a success vector with one entry for each call,
\* false at the failing call and true at every other.
C20_StrictVsTolerant ==
    (queryReturn.returned /\ queryOp.failing # {} /\ ~queryOp.fault) =>
        /\ queryOp.op = "Query"
              => /\ queryReturn.err # ""
                 /\ queryReturn.results = <<>>
                 /\ queryReturn.decoded = {}
        /\ queryOp.op = "FlexQuery"
              => /\ queryReturn.err = ""
                 /\ Len(queryReturn.results) = queryOp.count
                 /\ \A x \in 0..(queryOp.count - 1) :
                       queryReturn.results[x + 1] <=> x \notin queryOp.failing

C20_Witness ==
    /\ queryOp.op = "FlexQuery"
    /\ queryOp.count = 3
    /\ queryOp.failing = {1}
    /\ queryReturn.returned
    /\ queryReturn.err = ""
    /\ queryReturn.results = <<TRUE, FALSE, TRUE>>

\* C21: once a window of a strict BatchQuery has failed, the batch is cancelled:
\* no further window is dispatched, and the windows that are running pass no
\* further index to the adder and execute no multicall.
C21_FailFast ==
    [][(queryOp.op = "BatchQuery" /\ qpc \in {"loop", "wait"} /\ queryErr # "")
          => /\ Len(windows') = Len(windows)
             /\ \A k \in 1..Len(windows) :
                   /\ windows'[k].added = windows[k].added
                   /\ windows'[k].mcalls = windows[k].mcalls]_vars

\* C22: with a positive concurrentCallLimit, the windows of a BatchQuery or a
\* FlexBatchQuery whose goroutine has started and not returned never number
\* more than concurrentCallLimit.
C22_AtMostLimit ==
    concurrentCallLimit > 0 => Cardinality(Running) <= concurrentCallLimit

\* two windows run under a limit of two, and the loop waits with a third
C22_Witness ==
    /\ concurrentCallLimit > 1
    /\ Cardinality(Running) = concurrentCallLimit
    /\ qpc = "loop"
    /\ qi < queryOp.count
    /\ \A k \in Running : windows[k].pc = "adding"

\* C23: with a concurrentCallLimit of zero or less the dispatching loop never
\* waits: as long as windows remain, the next one can be dispatched.
C23_NonPositiveUnbounded ==
    (concurrentCallLimit <= 0 /\ qpc = "loop" /\ qi < queryOp.count)
        => ENABLED Dispatch

\* the places (window, position) at which handleResult was given index x
HandlerCalls(x) ==
    {p \in (1..Len(windows)) \X (1..MaxCount) :
        p[2] <= Len(windows[p[1]].handled) /\ windows[p[1]].handled[p[2]].index = x}

\* C24: FlexBatchQuery gives handleResult the global index of a position, window
\* start plus offset, with the success of that position's call; no position is
\* handled twice, and a FlexBatchQuery that returns nil has handled every
\* position of [0, count) exactly once.
C24_HandleResultOnce ==
    queryOp.op = "FlexBatchQuery" =>
        /\ \A k \in 1..Len(windows) :
              LET w == windows[k] IN
              \A n \in 1..Len(w.handled) :
                 /\ w.handled[n].index = w.i + (n - 1)
                 /\ w.handled[n].index \in 0..(queryOp.count - 1)
                 /\ w.handled[n].success <=> w.handled[n].index \notin queryOp.failing
        /\ \A x \in 0..(queryOp.count - 1) : Cardinality(HandlerCalls(x)) <= 1
        /\ (queryReturn.returned /\ queryReturn.err = "")
              => \A x \in 0..(queryOp.count - 1) : Cardinality(HandlerCalls(x)) = 1

C24_Witness ==
    /\ queryOp.op = "FlexBatchQuery"
    /\ queryOp.count = 3
    /\ queryOp.batchSize = 2
    /\ queryOp.failing = {2}
    /\ queryReturn.returned
    /\ queryReturn.err = ""
    /\ windows[2].handled = <<[index |-> 2, success |-> FALSE]>>
    /\ Len(windows[1].handled) = 2

\* C25: a window passes its indices to the adder in increasing order, and
\* handleResult is invoked for them in the order in which they were added: the
\* n-th invocation of a window is for the n-th index it added.
C25_WindowOrder ==
    \A k \in 1..Len(windows) :
        LET w == windows[k] IN
        /\ \A n \in 1..(Len(w.added) - 1) : w.added[n] < w.added[n + 1]
        /\ Len(w.handled) <= Len(w.added)
        /\ \A n \in 1..Len(w.handled) : w.handled[n].index = w.added[n]

\* the second window has returned, its results handled, while the first one has
\* handled one of its two
C25_Witness ==
    /\ queryOp.op = "FlexBatchQuery"
    /\ Len(windows) = 2
    /\ Len(windows[1].added) = 2
    /\ Len(windows[1].handled) = 1
    /\ Len(windows[2].handled) >= 1
    /\ windows[2].pc = "returned"

\* C29: SimulateTransaction returns at once only for a request without opts
\* (any other request goes to EstimateGas first); what it returns then is
\* isSimulated = false, both gas limits 0 and an empty simulationError, and the
\* step makes no call through the Execution client manager.
C29_NoOptsNotSimulated ==
    [][(simpc = "idle" /\ simpc' = "done")
          => /\ simResult'.IsSimulated = FALSE
             /\ simResult'.EstimatedGasLimit = 0
             /\ simResult'.SafeGasLimit = 0
             /\ simResult'.SimulationError = ""
             /\ UNCHANGED <<managerVars, proxyVars>>]_vars

\* a request without opts has returned, with no estimate asked for
C29_Witness ==
    /\ simpc = "done"
    /\ simEstimate = NoEstimate
    /\ ~simResult.IsSimulated
    /\ \A c \in Callers : pc[c] = "idle" /\ calls[c] = <<>>

\* C28: NewTransactionManager returns a manager and no error if the multiplier
\* is 0 or at least 1, and an error and no manager for every other multiplier.
C28_MultiplierAccepted ==
    built.called =>
        LET m == built.safeGasMultiplier
            zeroOrAtLeastOne == ~IsNaN(m) /\ (m[1] = 0 \/ m[1] >= m[2])
        IN /\ zeroOrAtLeastOne => (built.err = "" /\ built.manager)
           /\ ~zeroOrAtLeastOne => (built.err # "" /\ ~built.manager)

\* C26: a window's multicall that is in flight on the primary when the primary
\* disconnects is not invoked on another client within the same call, and the
\* call returns an error to the window.
C26_NoRetryInFlight ==
    \A k \in Callers :
        (/\ k <= Len(windows)
         /\ windows[k].pc = "calling"
         /\ calls[k] # <<>>
         /\ calls[k][1] = "primary"
         /\ (Len(calls[k]) > 1 \/ Disconnection(lastErr[k])))
            => /\ calls[k] = <<"primary">>
               /\ Ended(k) => result[k].kind \in {"allFailed", "error"}

(***************************************************************************)
(* Properties of the runners and of the Beacon block query.                *)
(***************************************************************************)
NotFound == [err |-> NilErr, status |-> StatusNotFound, body |-> ""]

\* C27: a Beacon node that answers 404 to the request for a block makes
\* GetBeaconBlock return (zero-value block, exists = false, nil error); through
\* the BeaconClientManager the call on that client is the last one of the query
\* and is returned as a success with these values, and the readiness flag of
\* the client it ran on is as the query found it (nor is any flag changed or the
\* fallback invoked when it ran on the primary).
C27_NotFound ==
    /\ GetBeaconBlock(NotFound) = [err |-> NilErr, arg1 |-> "", arg2 |-> FALSE]
    /\ (runArgs.op = "GetBeaconBlock" /\ Ended(RunCaller)) =>
          \A cl \in Clients :
             (runArgs[cl] = NotFound /\ Invoked(RunCaller, cl)) =>
                /\ result[RunCaller] = ValueOf(cl)
                /\ calls[RunCaller][Len(calls[RunCaller])] = cl
                /\ cl = "primary" =>
                      /\ calls[RunCaller] = <<"primary">>
                      /\ primaryReady = entered.primaryReady
                      /\ fallbackReady = entered.fallbackReady
                /\ cl = "fallback" => fallbackReady = entered.fallbackReady
                /\ returned.done =>
                      /\ returned.arg1 = ""
                      /\ returned.arg2 = FALSE
                      /\ returned.result.kind = "value"

\* the primary has answered 404 and the query has returned
C27_Witness ==
    /\ runArgs.op = "GetBeaconBlock"
    /\ runArgs.primary = NotFound
    /\ runArgs.fallback.body = "block"
    /\ IsFallbackEnabled
    /\ calls[RunCaller] = <<"primary">>
    /\ returned.done
    /\ returned.arg2 = FALSE
    /\ returned.result = ValueOf("primary")

\* what runFunction1 does with the function fn, found with the flags primary
\* and fallback, when nothing else touches the manager: the clients invoked,
\* the flags left and the result
RunOnFallback(primary, fallback, fn, logger, invoked) ==
    LET after == Append(invoked, "fallback")
        err == fn["fallback"].err
        Left(c, f, r) ==
            [primaryReady |-> primary, fallbackReady |-> f, result |-> r, calls |-> c]
    IN IF ~fallback THEN Left(invoked, fallback, NoneReady)
       ELSE IF ~IsFallbackEnabled THEN Left(after, fallback, Panic)
       ELSE IF err = NilErr THEN Left(after, fallback, ValueOf("fallback"))
       ELSE IF ~isDisconnected(err) THEN Left(after, fallback, ErrorOf(err))
       ELSE IF ~logger THEN Left(after, fallback, Panic)
       ELSE Left(after, FALSE, AllFailed)

RunOnPrimary(primary, fallback, fn, logger) ==
    LET err == fn["primary"].err
        Left(p, r) ==
            [primaryReady |-> p, fallbackReady |-> fallback, result |-> r,
             calls |-> <<"primary">>]
    IN IF ~primary THEN RunOnFallback(primary, fallback, fn, logger, <<>>)
       ELSE IF err = NilErr THEN Left(primary, ValueOf("primary"))
       ELSE IF ~isDisconnected(err) THEN Left(primary, ErrorOf(err))
       ELSE IF ~logger THEN Left(FALSE, Panic)
       ELSE IF ~IsFallbackEnabled THEN Left(FALSE, AllFailed)
       ELSE RunOnFallback(FALSE, fallback, fn, logger, <<"primary">>)

\* C30: a call of runFunction0 or of runFunction2 invokes the clients
\* runFunction1 invokes for the same flags and the same errors of the function,
\* in the same order, leaves the flags as runFunction1 leaves them and returns
\* the error runFunction1 returns; runFunction2 returns the two values of the
\* function unchanged when the call succeeds, and zero values with an error.
C30_RunnersAsRunFunction1 ==
    (runArgs.op \in {"runFunction0", "runFunction2"} /\ Ended(RunCaller)) =>
        LET e == RunOnPrimary(entered.primaryReady, entered.fallbackReady, function,
                              hasLogger[RunCaller])
        IN /\ calls[RunCaller] = e.calls
           /\ primaryReady = e.primaryReady
           /\ fallbackReady = e.fallbackReady
           /\ result[RunCaller] = e.result
           /\ returned.done =>
                 /\ returned.result = e.result
                 /\ (runArgs.op = "runFunction2" /\ e.result.kind = "value")
                       => /\ returned.arg1 = function[e.result.from].arg1
                          /\ returned.arg2 = function[e.result.from].arg2
                 /\ (runArgs.op = "runFunction0" \/ e.result.kind # "value")
                       => /\ returned.arg1 = ""
                          /\ returned.arg2 = FALSE

\* runFunction2 has failed over and returned the two values of the fallback
C30_Witness ==
    /\ runArgs.op = "runFunction2"
    /\ calls[RunCaller] = <<"primary", "fallback">>
    /\ Disconnection(function.primary.err)
    /\ ~primaryReady
    /\ returned.done
    /\ returned.arg1 = "fallback"
    /\ returned.arg2 = TRUE
    /\ returned.result = ValueOf("fallback")

(***************************************************************************)
(* Properties of the later claims.                                         *)
(***************************************************************************)
\* C33: a call whose function returned a disconnection error ends in a returned
\* outcome, the result of the fallback or an error, and never in a crash,
\* whether or not its context carries a logger.
C33_NeverCrashes ==
    \A c \in Callers :
        (/\ Len(calls[c]) > 0
         /\ Ended(c)
         /\ Disconnection(lastErr[c]) \/ calls[c] = <<"primary", "fallback">>)
            => pc[c] = "done"

\* C35: a GetSafeGasLimit(estimate) that succeeds returns a limit of at least
\* the estimate, for every buffer and multiplier NewTransactionManager accepts.
C35_LimitCoversEstimate ==
    (safeGas.called /\ safeGas.err = "") => safeGas.limit >= safeGas.estimate

\* C36: SignTransaction leaves the caller's opts as it was given them, and an
\* ExecuteTransaction, whose caller never asks for NoSend, broadcasts its
\* transaction also when its opts were used by a SignTransaction before.
C36_SignLeavesOpts ==
    /\ (execArgs.op = "SignTransaction" /\ bpc \in {"executed", "failed"})
            => opts = execArgs.opts
    /\ (execArgs.op = "ExecuteTransaction" /\ bpc = "executed")
            => batchReturn.txs[1].sent

\* C37: when building or sending submission i of a bundle fails, the bundle
\* returns an error and no transaction list, no later submission is built, the
\* submissions before i have been built with consecutive nonces and sent as
\* the opts ask, and the caller's opts.Nonce stands past them.
C37_FailsMidway ==
    (/\ execArgs.op = "BatchExecuteTransactions"
     /\ bpc = "failed"
     /\ bi >= 1)
        => LET N == IF entryNonce # NilNonce THEN entryNonce[1] ELSE nonceAnswers[1]
           IN /\ batchReturn.txs = <<>>
              /\ batchReturn.err = "error creating transaction"
              /\ ~ENABLED BatchLoop
              /\ \A j \in bi..Len(txSubmissions) : txs[j] = NilTx
              /\ \A j \in 1..(bi - 1) :
                    /\ txs[j] # NilTx
                    /\ txs[j].nonce = N + j - 1
                    /\ txs[j].data = txSubmissions[j].TxInfo.Data
                    /\ txs[j].sent = ~execArgs.opts.NoSend
              /\ opts.Nonce = <<N + bi - 1>>

\* the third submission of a bundle fails after two were broadcast
C37_Witness ==
    /\ execArgs.op = "BatchExecuteTransactions"
    /\ bpc = "failed"
    /\ Len(txSubmissions) = 3
    /\ bi = 3
    /\ txs[1] # NilTx /\ txs[1].sent
    /\ txs[2] # NilTx /\ txs[2].sent
    /\ txs[3] = NilTx
    /\ entryNonce = <<0>>
    /\ opts.Nonce = <<2>>
    /\ batchReturn.txs = <<>>

\* C34: BatchQuery and FlexBatchQuery dispatch finitely many windows for every
\* count and every batchSize: each window dispatched brings the loop index
\* nearer to count, which ends the loop after at most count windows.
C34_DispatchAdvances ==
    [][(qpc = "loop" /\ Len(windows') > Len(windows))
          => (qi' > qi /\ Len(windows') <= queryOp.count)]_vars

\* a step of CheckStatus with the chain IDs checked
CheckStatusRuns ==
    \E primaryStatus \in Statuses[TRUE], fallbackStatus \in Statuses[TRUE] :
        CheckStatusReport(TRUE, primaryStatus, fallbackStatus)

\* C40: right after a CheckStatus that checks chain IDs, a client whose status
\* carries another chain ID than the expected one is not ready, a client is
\* ready only when its status says working and synced, and without a fallback
\* client the fallback is not ready.
C40_ReadyAfterCheck ==
    [][CheckStatusRuns =>
        /\ managerStatus'.PrimaryClientStatus.ChainId # expectedChainID => ~primaryReady'
        /\ primaryReady' => /\ managerStatus'.PrimaryClientStatus.IsWorking
                            /\ managerStatus'.PrimaryClientStatus.IsSynced
        /\ managerStatus'.FallbackEnabled =>
              /\ managerStatus'.FallbackClientStatus.ChainId # expectedChainID
                    => ~fallbackReady'
              /\ fallbackReady' => /\ managerStatus'.FallbackClientStatus.IsWorking
                                   /\ managerStatus'.FallbackClientStatus.IsSynced
        /\ ~managerStatus'.FallbackEnabled => ~fallbackReady']_vars

\* a check found the primary working and synced on another chain and marked
\* it not ready, and found the fallback on the expected chain and marked it ready
C40_Witness ==
    /\ managerStatus.called
    /\ managerStatus.checkChainIDs
    /\ managerStatus.PrimaryClientStatus.ChainId = 2
    /\ managerStatus.PrimaryClientStatus.IsWorking
    /\ managerStatus.PrimaryClientStatus.IsSynced
    /\ managerStatus.PrimaryClientStatus.Error
    /\ ~primaryReady
    /\ managerStatus.FallbackEnabled
    /\ managerStatus.FallbackClientStatus.ChainId = expectedChainID
    /\ fallbackReady

\* the duty entries of the list that carry the index
DutyEntries(index, data) == {k \in 1..Len(data) : data[k] = index}

\* C32: GetValidatorProposerDuties returns for every index asked for the number
\* of entries of the epoch's duty list that carry it, 0 when there is none.
C32_DutiesSummed ==
    (duties.called /\ duties.err = "")
        => \A n \in 1..Len(duties.indices) :
              duties.proposerMap[duties.indices[n]]
                  = Cardinality(DutyEntries(duties.indices[n], duties.data))

\* C39: getValidatorsByOpts returns for every list that is not empty, whatever
\* runtime.NumCPU() is: while validators remain to be asked for and no request
\* is in flight, the loop can start the next request.
C39_FetchProceeds ==
    (fetch.pc = "loop" /\ fetch.i < fetch.count /\ Fetching = {}) => ENABLED Go

\* C31: a decoder is held by at most one request and reads the body of that
\* request; a decoder at rest in the pool has no reader, no kept error and no
\* unread bytes, so that a request whose body is a complete value decodes it
\* whatever the requests before it got.
C31_CleanCheckout ==
    /\ \A d \in Decoders :
          /\ Cardinality(Holders(d)) <= 1
          /\ \A r \in Holders(d) : decoders[d].currentReader = r
          /\ d \in pool => /\ decoders[d].currentReader = 0
                           /\ decoders[d].err = ""
                           /\ decoders[d].buf = <<>>
    /\ \A r \in Requests :
          (/\ requests[r].pc = "returned"
           /\ requests[r].status = StatusOK
           /\ requests[r].body = <<"open", "close">>) => requests[r].err = ""

\* C38: a request for committees whose response has arrived returns, with
\* the committees or with an error, whatever the body is.
C38_CommitteesReturn ==
    \A r \in Requests : (requests[r].pc = "decode") ~> (requests[r].pc = "returned")

Next ==
    \/ \E c \in Callers : runFunction1(c)
    \/ \E c \in Callers : CheckPrimary(c)
    \/ \E c \in Callers : TryPrimary(c)
    \/ \E c \in Callers : CheckFallback(c)
    \/ \E c \in Callers : TryFallback(c)
    \/ \E c \in Callers : Return(c)
    \/ \E ready \in BOOLEAN : SetPrimaryReady(ready)
    \/ \E ready \in BOOLEAN : SetFallbackReady(ready)
    \/ \E checkChainIDs \in BOOLEAN : CheckStatus(checkChainIDs)

\* the proxy used from one goroutine at a time
Spec == Init /\ [][Next]_vars

\* callers and the health check on goroutines of their own
SpecConc == InitConc /\ [][Next]_vars

\* bundles of transactions through the TransactionManager
SpecBatch == InitBatch /\ [][NextBatch]_vars

\* gas limits and simulations of the TransactionManager
SpecSim == InitSim /\ [][NextSim]_vars

\* runFunction0, runFunction2 and the Beacon block query, from one goroutine
SpecRun == Init /\ [][NextRun]_vars

\* the constructor of the TransactionManager
SpecNew == InitSim /\ [][NextNew]_vars

\* the waiting operations of the TransactionManager
SpecWait == Init /\ [][NextWait]_vars

\* batch queries through the ExecutionClientManager
SpecQueryEc == InitQueryEc /\ [][NextQueryEc]_vars

\* the queries of the QueryManager
SpecQuery == InitQuery /\ [][NextQuery]_vars

\* batch queries called with any batch size
SpecQueryAnySize == InitQuery /\ [][NextQueryAnySize]_vars

\* the status check with the status it returns
SpecStatus == Init /\ [][NextStatus]_vars

\* the proposer duties of the Beacon HTTP client
SpecDuties == Init /\ [][NextDuties]_vars

\* the validators fetched by the Beacon client
SpecValidators == Init /\ [][NextValidators]_vars

\* the committees requests of the Beacon HTTP client
SpecCommittees == Init /\ [][NextCommittees]_vars

\* the same with every request's goroutine running on
SpecCommitteesFair ==
    /\ Init
    /\ [][NextCommittees]_vars
    /\ \A r \in Requests : WF_vars(RequestStep(r))

====
